---------------------------- MODULE Spec2Model ----------------------------
(***************************************************************************)
(* A model of the c-lbs-1 load balancer: the backend connection pool       *)
(* (chapter-06 conn_pool.c), the pooled load balancer built on it          *)
(* (chapter-06 pooled_lb.c) and the backend selection policies.            *)
(***************************************************************************)
EXTENDS Integers, Sequences, FiniteSets, Bags, TLC

(***************************************************************************)
(* Bounds of the model.                                                    *)
(***************************************************************************)
MaxSize == 2
    \* max_size handed to conn_pool_create
MaxRequestsPerConn == 2
    \* pool->max_requests_per_conn, scaled down from 1000
NumHosts == 2
    \* distinct backend identities (host, port)
MaxFd == 4
    \* descriptors the process may have open at once (RLIMIT_NOFILE)
NumThreads == 2
    \* concurrent callers of the pool
MaxGets == 3
    \* conn_pool_get calls in one behaviour
TickStep == 31
    \* seconds the clock advances in one step
MaxNow == 62
    \* last clock value
NumBackends == 3
    \* lb.num_backends, the roster length
MaxWeight == 3
    \* largest backend weight
MaxPeriods == 2
    \* weighted round-robin periods followed
MaxSelects == 4
    \* select_backend calls in one behaviour of the selection policies
MaxClients == 2
    \* MAX_CLIENTS, the session slab, scaled down from 4096
LbBackends == 2
    \* backends named on the load balancer's command line
LbPoolSize == 1
    \* pool_size (-p), below MAX_CLIENTS as the default 64 is below 4096
MaxAccepts == 3
    \* clients that connect in one behaviour
MaxBatch == 2
    \* events one epoll_wait hands back (max_events)
MaxRate == 2
    \* largest limiter->rate, in halves of a request per second
MaxBurst == 2
    \* largest limiter->burst, in halves of a token
MaxGlobal == 1
    \* largest limiter->global_limit
MaxCalls == 3
    \* rate_limiter_allow calls in one behaviour
MaxWaits == 2
    \* times the wall clock is advanced in one behaviour
StartWall == 1000
    \* wall clock, in milliseconds, of the first whole second observed
ShortWait == 500
    \* milliseconds of a short pause between calls
LongWait == 200000
    \* milliseconds of a long pause between calls
BurstCalls == 25
    \* rate_limiter_allow calls in one behaviour of the burst scenario
ReuseRequests == 1000
    \* keep-alive requests in one behaviour of the reuse scenario
MaxFileBackends == 2
    \* elements of "backends" in a configuration file
MaxEdits == 1
    \* times the configuration file is saved in one behaviour
MaxTimeout == 2
    \* largest drain timeout, in seconds
MaxActive == 2
    \* largest reload_state_t.active_connections
MaxDrainWall == 4000
    \* milliseconds of wall clock followed while a process drains
MaxProcs == 3
    \* processes started on one PID file
MaxEvFds == 2
    \* descriptors the chapter-05 event loop is given
MaxEvents == 2
    \* max_events of event_loop_create: events one wait can report
BUFFER_SIZE == 3
    \* the scratch buffer of the relay callbacks, in bytes (16384 in the code)
MaxRelayReads == 2
    \* successful reads followed in one session
MaxLcConns == 2
    \* sessions open at once in the least-connections scenario
MaxHcWall == 8
    \* seconds of wall clock followed in the health-supervision scenario
SwWindow == 5
    \* the longer window of the sliding-window scenario, in seconds
MaxSwCalls == 7
    \* rate_limiter_allow calls in one behaviour of the sliding-window scenario
MaxSwWall == 10
    \* seconds of wall clock followed in the sliding-window scenario
DivBits == 64
    \* bits of a quotient worked out before it is rounded to a double
MaxKeyCalls == 3
    \* rate_limiter_allow calls in the long-key scenario

(***************************************************************************)
(* Program constants.                                                      *)
(***************************************************************************)
DEFAULT_POOL_TTL == 60
IDLE_LIMIT == 30
HEALTH_CHECK_INTERVAL == 5
RECYCLE_AFTER == 1000
HASH_SIZE == 1024
\* sizeof(RateEntry.key)
KEY_SIZE == 64
EXPIRY == 300
ONE == 2
    \* the double 1.0: rate, burst and tokens are counted in halves, which
    \* the doubles of the code hold exactly

Slots   == 1..MaxSize
Hosts   == 1..NumHosts
Fds     == 1..MaxFd
Threads == 1..NumThreads
Conns   == 1..MaxClients

NULL == 0
    \* the null slot pointer; slot i of the code is slot i+1 here

VARIABLES
    pool,       \* conn_pool_t
    open,       \* descriptors open in the process
    dead,       \* open descriptors whose peer has closed or reset
    ebadf,      \* close() was called on a descriptor that was not open
    now,        \* time(NULL)
    thr,        \* per caller: position in conn_pool_get and its locals
    leases,     \* fds handed out by conn_pool_get and not yet given back
    gets        \* number of conn_pool_get calls made

poolVars == <<pool, open, dead, ebadf, now, thr, leases, gets>>

VARIABLES
    backends,       \* lb.backends[0..num_backends-1]
    current_index,  \* lb.current_index
    picks,          \* the backends returned by the selections so far
    hist,           \* per client IP: the backend select_ip_hash last returned
                    \* to it since the health flags last changed
    nsel            \* number of select_backend calls made

selVars == <<backends, current_index, picks, hist, nsel>>

VARIABLES
    connections,     \* lb.connections[]: the session slab (slot i is i+1 here)
    free_list,       \* lb.free_list
    num_connections, \* lb.num_connections
    fd_data,         \* event_loop.fd_data[]: the callback data of each fd
    watch,           \* the kernel's epoll interest set
    batch,           \* event_loop.events[]: what epoll_wait returned and
                     \* event_loop_run has not dispatched yet
    phase,           \* where main's loop is
    last,            \* how the last session to end was torn down
    accepts          \* clients that have connected

lbVars == <<connections, free_list, num_connections, fd_data, watch, batch,
            phase, last, accepts>>

VARIABLES
    limiter,    \* rate_limiter_t, its hash table included
    wall,       \* the wall clock in milliseconds; time(NULL) is its seconds
    rl_last,    \* the last call made on the limiter and what it returned
    calls,      \* number of rate_limiter_allow calls made
    waits,      \* number of times the wall clock was advanced
    admits,     \* calls that returned 1 during the current second
    used,       \* per key: time(NULL) of its last rate_limiter_allow call,
                \* -1 before the first
    rl_trace    \* burst scenario: the calls and pauses so far, in order

rlVars == <<limiter, wall, rl_last, calls, waits, admits, used, rl_trace>>

VARIABLES
    g_config,   \* the configuration in force
    g_reload,   \* set by SIGHUP and by a change of the file
    g_running,  \* cleared by SIGTERM and SIGINT
    conf_mtime, \* st_mtime of the configuration file
    hr_last     \* what the last turn of main's loop did

cfgVars == <<g_config, g_reload, g_running, conf_mtime, hr_last>>

VARIABLES
    state,       \* reload_state_t of the process that drains
    hr_wall,     \* the wall clock in milliseconds; time(NULL) is its seconds
    drain_began, \* the wall clock at the last reload_start_drain, -1 if none
    pid_file,    \* the text of the PID file, <<>> when there is no file
    procs        \* per process started on the PID file: where it is

rsVars == <<state, hr_wall, drain_began, pid_file, procs>>

VARIABLES
    ev_loop,    \* event_loop_t of chapter 05 and the backend it was built for
    ev_last,    \* what the last event_loop_run did and returned
    relay       \* one session of pooled_lb.c: the bytes read from each side
                \* and the bytes the socket of the other side accepted

evVars == <<ev_loop, ev_last>>

ioVars == <<evVars, relay>>

VARIABLES
    hc          \* main's loop of pooled_lb.c seen by the clock: the health
                \* fields of lb.backends[], when each backend was probed and
                \* what the probe found

hcVars == <<hc>>

\* what the actions of one part leave alone
notPool == <<selVars, lbVars, rlVars, cfgVars, rsVars, ioVars, hcVars>>
notSel == <<poolVars, lbVars, rlVars, cfgVars, rsVars, ioVars, hcVars>>
notLb == <<thr, leases, gets, picks, hist, nsel, rlVars, cfgVars, rsVars,
          ioVars, hcVars>>
notRl == <<poolVars, selVars, lbVars, cfgVars, rsVars, ioVars, hcVars>>
notCfg == <<poolVars, selVars, lbVars, rlVars, rsVars, ioVars, hcVars>>
notRs == <<poolVars, selVars, lbVars, rlVars, cfgVars, ioVars, hcVars>>
notIo == <<poolVars, selVars, lbVars, rlVars, cfgVars, rsVars, hcVars>>
notHc == <<poolVars, selVars, lbVars, rlVars, cfgVars, rsVars, ioVars>>

(***************************************************************************)
(* The kernel: descriptors.                                                *)
(***************************************************************************)
Kern == [pool |-> pool, open |-> open, dead |-> dead, ebadf |-> ebadf]

\* close(fd): the descriptor goes away; EBADF when it was not open
close(K, fd) ==
    [K EXCEPT !.open = @ \ {fd}, !.dead = @ \ {fd},
              !.ebadf = @ \/ (fd \notin K.open)]

\* socket(): the lowest descriptor not in use, -1 when the table is full
LowestFree(op) ==
    IF Fds \ op = {} THEN -1
    ELSE CHOOSE f \in Fds \ op : \A g \in Fds \ op : f <= g

conn_is_alive(K, fd) ==
    IF fd < 0 THEN FALSE
    ELSE fd \in K.open /\ fd \notin K.dead

(***************************************************************************)
(* conn_pool.c: the LRU list.                                              *)
(***************************************************************************)
lru_touch(p, c) ==
    IF c = p.lru_head THEN p
    ELSE
      LET cs0 == p.connections
          cs1 == IF cs0[c].prev # NULL
                 THEN [cs0 EXCEPT ![cs0[c].prev].next = cs0[c].next] ELSE cs0
          cs2 == IF cs1[c].next # NULL
                 THEN [cs1 EXCEPT ![cs1[c].next].prev = cs1[c].prev] ELSE cs1
          tail1 == IF c = p.lru_tail THEN cs2[c].prev ELSE p.lru_tail
          cs3 == [cs2 EXCEPT ![c].prev = NULL, ![c].next = p.lru_head]
          cs4 == IF p.lru_head # NULL
                 THEN [cs3 EXCEPT ![p.lru_head].prev = c] ELSE cs3
          tail2 == IF tail1 = NULL THEN c ELSE tail1
      IN [p EXCEPT !.connections = cs4, !.lru_head = c, !.lru_tail = tail2]

lru_remove(p, c) ==
    LET cs0 == p.connections
        cs1 == IF cs0[c].prev # NULL
               THEN [cs0 EXCEPT ![cs0[c].prev].next = cs0[c].next] ELSE cs0
        cs2 == IF cs1[c].next # NULL
               THEN [cs1 EXCEPT ![cs1[c].next].prev = cs1[c].prev] ELSE cs1
        head1 == IF c = p.lru_head THEN cs2[c].next ELSE p.lru_head
        tail1 == IF c = p.lru_tail THEN cs2[c].prev ELSE p.lru_tail
        cs3 == [cs2 EXCEPT ![c].prev = NULL, ![c].next = NULL]
    IN [p EXCEPT !.connections = cs3, !.lru_head = head1, !.lru_tail = tail1]

RECURSIVE find_by_fd_from(_, _, _)
find_by_fd_from(p, fd, i) ==
    IF i > p.max_size THEN NULL
    ELSE IF p.connections[i].fd = fd THEN i
    ELSE find_by_fd_from(p, fd, i + 1)

find_by_fd(p, fd) == find_by_fd_from(p, fd, 1)

RECURSIVE find_free_slot_from(_, _)
find_free_slot_from(p, i) ==
    IF i > p.max_size THEN NULL
    ELSE IF p.connections[i].state = "FREE" /\ p.connections[i].fd < 0 THEN i
    ELSE find_free_slot_from(p, i + 1)

find_free_slot(p) == find_free_slot_from(p, 1)

(***************************************************************************)
(* conn_pool.c: conn_pool_create.                                          *)
(***************************************************************************)
EmptyConn ==
    [fd |-> -1, host |-> 0, last_used |-> 0, created |-> 0,
     state |-> "FREE", requests_served |-> 0, next |-> NULL, prev |-> NULL]

conn_pool_create(max_size, ttl_seconds) ==
    [connections |-> [i \in 1..max_size |-> EmptyConn],
     max_size |-> max_size,
     current_size |-> 0,
     ttl_seconds |-> ttl_seconds,
     max_requests_per_conn |-> MaxRequestsPerConn,
     lru_head |-> NULL, lru_tail |-> NULL,
     pool_hits |-> 0, pool_misses |-> 0, pool_evictions |-> 0]

(***************************************************************************)
(* conn_pool.c: conn_pool_get, the part before the dial (first critical    *)
(* section).                                                               *)
(***************************************************************************)
\* a disqualified candidate of the scan: closed and vacated, the slot stays
\* where it is in the LRU list
scan_evict(K, i, expired) ==
    LET K1 == close(K, K.pool.connections[i].fd)
    IN [K1 EXCEPT !.pool.connections[i].fd = -1,
                  !.pool.current_size = @ - 1,
                  !.pool.pool_evictions = IF expired THEN @ + 1 ELSE @]

\* lease_hit that forgets to count the hit
lease_hit_uncounted(K, i, nw) ==
    LET p1 == [K.pool EXCEPT !.connections[i].state = "IN_USE",
                             !.connections[i].last_used = nw,
                             !.connections[i].requests_served = @ + 1]
    IN [K EXCEPT !.pool = lru_touch(p1, i)]

\* the first surviving candidate is leased
lease_hit(K, i, nw) ==
    LET p1 == [K.pool EXCEPT !.connections[i].state = "IN_USE",
                             !.connections[i].last_used = nw,
                             !.connections[i].requests_served = @ + 1]
        p2 == lru_touch(p1, i)
    IN [K EXCEPT !.pool = [p2 EXCEPT !.pool_hits = @ + 1]]

RECURSIVE get_scan(_, _, _, _)
get_scan(K, i, host, nw) ==
    IF i > K.pool.max_size THEN [K |-> K, fd |-> -1]
    ELSE
      LET conn == K.pool.connections[i] IN
      IF conn.state = "FREE" /\ conn.fd >= 0 /\ conn.host = host
      THEN IF K.pool.ttl_seconds > 0 /\ (nw - conn.created) > K.pool.ttl_seconds
           THEN get_scan(scan_evict(K, i, TRUE), i + 1, host, nw)
           ELSE IF conn.requests_served >= K.pool.max_requests_per_conn
           THEN get_scan(scan_evict(K, i, FALSE), i + 1, host, nw)
           ELSE IF ~conn_is_alive(K, conn.fd)
           THEN get_scan(scan_evict(K, i, FALSE), i + 1, host, nw)
           ELSE [K |-> lease_hit(K, i, nw), fd |-> conn.fd]
      ELSE get_scan(K, i + 1, host, nw)

\* the pool is full: the least recently used slot is taken over
evict_lru_tail(K) ==
    LET slot == K.pool.lru_tail
        K1 == IF K.pool.connections[slot].fd >= 0
              THEN LET Kc == close(K, K.pool.connections[slot].fd)
                   IN [Kc EXCEPT !.pool.current_size = @ - 1,
                                 !.pool.pool_evictions = @ + 1]
              ELSE K
    IN [K1 EXCEPT !.pool = lru_remove(K1.pool, slot)]

get_miss_evicts_head(K) ==
    LET K1 == [K EXCEPT !.pool.pool_misses = @ + 1]
        free == find_free_slot(K1.pool)
        Kh == [K1 EXCEPT !.pool.lru_tail = K1.pool.lru_head]
    IN IF free = NULL /\ K1.pool.lru_tail # NULL
       THEN [K |-> evict_lru_tail(Kh), slot |-> K1.pool.lru_head]
       ELSE [K |-> K1, slot |-> free]

\* no pooled connection: count the miss and choose the slot (NULL: none)
get_miss(K) ==
    LET K1 == [K EXCEPT !.pool.pool_misses = @ + 1]
        free == find_free_slot(K1.pool)
    IN IF free = NULL /\ K1.pool.lru_tail # NULL
       THEN [K |-> evict_lru_tail(K1), slot |-> K1.pool.lru_tail]
       ELSE [K |-> K1, slot |-> free]

\* lines 196-272: the result is the fd of a hit, or the slot to dial for
get_locked(K, host, nw) ==
    LET s == get_scan(K, 1, host, nw)
    IN IF s.fd >= 0
       THEN [K |-> s.K, fd |-> s.fd, slot |-> NULL, hit |-> TRUE]
       ELSE LET m == get_miss(s.K)
            IN [K |-> m.K, fd |-> -1, slot |-> m.slot, hit |-> FALSE]

\* create_connection: the new descriptor, or -1
create_connection(K, ok) ==
    LET fd == IF ok THEN LowestFree(K.open) ELSE -1
    IN [K |-> IF fd >= 0 THEN [K EXCEPT !.open = @ \cup {fd}] ELSE K,
        fd |-> fd]

\* lines 277-292: the second critical section
get_install(K, slot, fd, host, nw) ==
    IF fd >= 0
    THEN LET p1 == [K.pool EXCEPT
                      !.connections[slot].fd = fd,
                      !.connections[slot].host = host,
                      !.connections[slot].created = nw,
                      !.connections[slot].last_used = nw,
                      !.connections[slot].state = "IN_USE",
                      !.connections[slot].requests_served = 1,
                      !.current_size = @ + 1]
         IN [K EXCEPT !.pool = lru_touch(p1, slot)]
    ELSE K

(***************************************************************************)
(* conn_pool.c: conn_pool_return, conn_pool_close, conn_pool_cleanup.      *)
(***************************************************************************)
vacate(K, c, fd) ==
    LET K1 == close(K, fd)
        p1 == [K1.pool EXCEPT !.connections[c].fd = -1,
                              !.connections[c].state = "FREE"]
        p2 == lru_remove(p1, c)
    IN [K1 EXCEPT !.pool = [p2 EXCEPT !.current_size = @ - 1]]

\* conn_pool_return that parks a live connection whatever it has served
conn_pool_return_parks(K, fd, host, nw) ==
    IF fd < 0 THEN K
    ELSE
      LET c == find_by_fd(K.pool, fd) IN
      IF c # NULL
      THEN IF K.pool.connections[c].host = host /\ conn_is_alive(K, fd)
           THEN LET p1 == [K.pool EXCEPT !.connections[c].state = "FREE",
                                         !.connections[c].last_used = nw]
                IN [K EXCEPT !.pool = lru_touch(p1, c)]
           ELSE vacate(K, c, fd)
      ELSE close(K, fd)

conn_pool_return_closes(K, fd, host, nw) ==
    IF fd < 0 THEN K
    ELSE
      LET c == find_by_fd(K.pool, fd) IN
      IF c # NULL THEN vacate(K, c, fd) ELSE close(K, fd)

conn_pool_return(K, fd, host, nw) ==
    IF fd < 0 THEN K
    ELSE
      LET c == find_by_fd(K.pool, fd) IN
      IF c # NULL
      THEN IF K.pool.connections[c].host = host
              /\ conn_is_alive(K, fd)
              /\ K.pool.connections[c].requests_served
                   < K.pool.max_requests_per_conn
           THEN LET p1 == [K.pool EXCEPT !.connections[c].state = "FREE",
                                         !.connections[c].last_used = nw]
                IN [K EXCEPT !.pool = lru_touch(p1, c)]
           ELSE vacate(K, c, fd)
      ELSE close(K, fd)

conn_pool_close(K, fd) ==
    IF fd < 0 THEN K
    ELSE
      LET c == find_by_fd(K.pool, fd) IN
      IF c # NULL THEN vacate(K, c, fd) ELSE close(K, fd)

cleanup_should_evict(K, i, nw) ==
    LET conn == K.pool.connections[i] IN
    \/ K.pool.ttl_seconds > 0 /\ (nw - conn.created) > K.pool.ttl_seconds
    \/ (nw - conn.last_used) > IDLE_LIMIT
    \/ ~conn_is_alive(K, conn.fd)

cleanup_evict_keeps_fd(K, i) ==
    LET K1 == close(K, K.pool.connections[i].fd)
        p2 == lru_remove(K1.pool, i)
    IN [K1 EXCEPT !.pool = [p2 EXCEPT !.current_size = @ - 1,
                                      !.pool_evictions = @ + 1]]

cleanup_evict(K, i) ==
    LET K1 == close(K, K.pool.connections[i].fd)
        p1 == [K1.pool EXCEPT !.connections[i].fd = -1]
        p2 == lru_remove(p1, i)
    IN [K1 EXCEPT !.pool = [p2 EXCEPT !.current_size = @ - 1,
                                      !.pool_evictions = @ + 1]]

RECURSIVE cleanup_from(_, _, _, _)
cleanup_from(K, i, nw, evicted) ==
    IF i > K.pool.max_size THEN [K |-> K, evicted |-> evicted]
    ELSE
      LET conn == K.pool.connections[i] IN
      IF conn.state = "FREE" /\ conn.fd >= 0 /\ cleanup_should_evict(K, i, nw)
      THEN cleanup_from(cleanup_evict(K, i), i + 1, nw, evicted + 1)
      ELSE cleanup_from(K, i + 1, nw, evicted)

conn_pool_cleanup(K, nw) == cleanup_from(K, 1, nw, 0)

(***************************************************************************)
(* Callers of the pool: threads that each run conn_pool_get, which gives   *)
(* up the mutex while it dials; return, close and cleanup hold the mutex   *)
(* from start to end.                                                      *)
(***************************************************************************)
SetKern(K) ==
    /\ pool' = K.pool
    /\ open' = K.open
    /\ dead' = K.dead
    /\ ebadf' = K.ebadf

IdleThread == [pc |-> "idle", host |-> 0, slot |-> NULL, now |-> 0, fd |-> -1]

\* an outstanding lease: what conn_pool_get returned, and for which backend
Lease(fd, host, slot) == [fd |-> fd, host |-> host, pooled |-> slot # NULL]

Take(fd, host, slot) ==
    IF fd >= 0 THEN leases (+) SetToBag({Lease(fd, host, slot)}) ELSE leases

Give(l) == leases (-) SetToBag({l})

\* conn_pool_get as one caller runs it from call to return
conn_pool_get(K, host, nw, ok) ==
    LET r == get_locked(K, host, nw) IN
    IF r.hit THEN [K |-> r.K, fd |-> r.fd, slot |-> NULL, hit |-> TRUE]
    ELSE LET d == create_connection(r.K, ok) IN
         IF r.slot = NULL
         THEN [K |-> d.K, fd |-> d.fd, slot |-> NULL, hit |-> FALSE]
         ELSE [K |-> get_install(d.K, r.slot, d.fd, host, nw),
               fd |-> d.fd, slot |-> r.slot, hit |-> FALSE]

\* a whole conn_pool_get by a single caller, one of at most most calls
GetStep(h, ok, most) ==
    /\ UNCHANGED notPool
    /\ \A t \in Threads : thr[t].pc = "idle"
    /\ gets < most
    /\ gets' = gets + 1
    /\ LET r == conn_pool_get(Kern, h, now, ok) IN
       /\ SetKern(r.K)
       /\ leases' = Take(r.fd, h, IF r.hit THEN 1 ELSE r.slot)
    /\ UNCHANGED <<now, thr>>

Get(h, ok) == GetStep(h, ok, MaxGets)

\* conn_pool_get up to its first unlock
GetBegin(t, h) ==
    /\ UNCHANGED notPool
    /\ thr[t].pc = "idle"
    /\ gets < MaxGets
    /\ gets' = gets + 1
    /\ LET r == get_locked(Kern, h, now) IN
       /\ SetKern(r.K)
       /\ IF r.hit
          THEN /\ leases' = Take(r.fd, h, 1)
               /\ thr' = thr
          ELSE /\ leases' = leases
               /\ thr' = [thr EXCEPT ![t] = [pc |-> "dial", host |-> h,
                                             slot |-> r.slot, now |-> now,
                                             fd |-> -1]]
    /\ now' = now

\* create_connection, outside the mutex
GetDial(t, ok) ==
    /\ UNCHANGED notPool
    /\ thr[t].pc = "dial"
    /\ LET r == create_connection(Kern, ok) IN
       /\ SetKern(r.K)
       /\ IF thr[t].slot = NULL
          THEN /\ thr' = [thr EXCEPT ![t] = IdleThread]
               /\ leases' = Take(r.fd, thr[t].host, NULL)
          ELSE /\ thr' = [thr EXCEPT ![t].pc = "install", ![t].fd = r.fd]
               /\ leases' = leases
    /\ UNCHANGED <<now, gets>>

\* conn_pool_get from its second lock to its return
GetInstall(t) ==
    /\ UNCHANGED notPool
    /\ thr[t].pc = "install"
    /\ SetKern(get_install(Kern, thr[t].slot, thr[t].fd, thr[t].host, thr[t].now))
    /\ leases' = Take(thr[t].fd, thr[t].host, thr[t].slot)
    /\ thr' = [thr EXCEPT ![t] = IdleThread]
    /\ UNCHANGED <<now, gets>>

\* a caller gives its lease back
Return(l) ==
    /\ UNCHANGED notPool
    /\ BagIn(l, leases)
    /\ SetKern(conn_pool_return(Kern, l.fd, l.host, now))
    /\ leases' = Give(l)
    /\ UNCHANGED <<now, thr, gets>>

\* a caller discards its lease
Close(l) ==
    /\ UNCHANGED notPool
    /\ BagIn(l, leases)
    /\ SetKern(conn_pool_close(Kern, l.fd))
    /\ leases' = Give(l)
    /\ UNCHANGED <<now, thr, gets>>

Cleanup ==
    /\ UNCHANGED notPool
    /\ SetKern(conn_pool_cleanup(Kern, now).K)
    /\ UNCHANGED <<now, thr, leases, gets>>

\* the peer of an open connection closes or resets it
PeerClose(fd) ==
    /\ UNCHANGED notPool
    /\ fd \in open \ dead
    /\ dead' = dead \cup {fd}
    /\ UNCHANGED <<pool, open, ebadf, now, thr, leases, gets>>

Tick ==
    /\ UNCHANGED notPool
    /\ now + TickStep <= MaxNow
    /\ now' = now + TickStep
    /\ UNCHANGED <<pool, open, dead, ebadf, thr, leases, gets>>

PoolInit ==
    /\ pool = conn_pool_create(MaxSize, DEFAULT_POOL_TTL)
    /\ open = {}
    /\ dead = {}
    /\ ebadf = FALSE
    /\ now = 0
    /\ thr = [t \in Threads |-> IdleThread]
    /\ leases = EmptyBag
    /\ gets = 0

\* one caller at a time
PoolNext ==
    \/ \E h \in Hosts, ok \in BOOLEAN : Get(h, ok)
    \/ \E l \in BagToSet(leases) : Return(l)
    \/ \E l \in BagToSet(leases) : Close(l)
    \/ Cleanup
    \/ \E fd \in Fds : PeerClose(fd)
    \/ Tick

\* one client of one backend that stays alive: keep-alive requests one after
\* the other, each a conn_pool_get and then a conn_pool_return, on a pool of
\* 8 slots with the defaults of conn_pool_create
ReuseInit ==
    /\ pool = [conn_pool_create(8, DEFAULT_POOL_TTL)
                 EXCEPT !.max_requests_per_conn = RECYCLE_AFTER]
    /\ open = {}
    /\ dead = {}
    /\ ebadf = FALSE
    /\ now = 0
    /\ thr = [t \in Threads |-> IdleThread]
    /\ leases = EmptyBag
    /\ gets = 0

ReuseGet ==
    /\ leases = EmptyBag
    /\ GetStep(1, TRUE, ReuseRequests)

ReuseReturn == \E l \in BagToSet(leases) : Return(l)

ReuseNext == ReuseGet \/ ReuseReturn \/ Tick

\* one caller at a time, with one backend more than the pool has slots
LruHosts == 1..(MaxSize + 1)

LruGet(h, ok) == GetStep(h, ok, MaxSize + 1)

LruNext ==
    \/ \E h \in LruHosts, ok \in BOOLEAN : LruGet(h, ok)
    \/ \E l \in BagToSet(leases) : Return(l)
    \/ Tick

\* concurrent callers, racing within one second of the clock
PoolNextMT ==
    \/ \E t \in Threads, h \in Hosts : GetBegin(t, h)
    \/ \E t \in Threads, ok \in BOOLEAN : GetDial(t, ok)
    \/ \E t \in Threads : GetInstall(t)
    \/ \E l \in BagToSet(leases) : Return(l)
    \/ \E l \in BagToSet(leases) : Close(l)
    \/ Cleanup
    \/ \E fd \in Fds : PeerClose(fd)

(***************************************************************************)
(* pooled_lb.c: the backend roster and the selection policies.  Backends   *)
(* are indexed 0..num_backends-1 as in the code; -1 stands for no backend. *)
(***************************************************************************)
Roster == 0..(NumBackends - 1)

\* client IP strings, as their characters' codes
Ip_203_0_113_7 == <<50, 48, 51, 46, 48, 46, 49, 49, 51, 46, 55>>
Ip_10_0_0_2    == <<49, 48, 46, 48, 46, 48, 46, 50>>
Ip_172_16_0_9  == <<49, 55, 50, 46, 49, 54, 46, 48, 46, 57>>
ClientIps == {Ip_203_0_113_7, Ip_10_0_0_2, Ip_172_16_0_9}

\* parse_backend
NewBackend(w) ==
    [weight |-> w, current_weight |-> 0, is_healthy |-> TRUE,
     active_connections |-> 0, failed_requests |-> 0, last_health_check |-> 0]

\* select_round_robin: the do-while loop
RECURSIVE rr_loop(_, _, _, _)
rr_loop(bs, n, idx, attempts) ==
    LET idx1 == (idx + 1) % n IN
    IF bs[idx1].is_healthy THEN [current_index |-> idx1, found |-> TRUE]
    ELSE IF attempts + 1 < n THEN rr_loop(bs, n, idx1, attempts + 1)
    ELSE [current_index |-> idx1, found |-> FALSE]

\* select_round_robin that returns where the loop stopped
select_round_robin_stays(bs, n, cur) ==
    LET r == rr_loop(bs, n, cur, 0) IN
    [backends |-> bs, current_index |-> r.current_index,
     pick |-> r.current_index]

select_round_robin(bs, n, cur) ==
    LET r == rr_loop(bs, n, cur, 0) IN
    [backends |-> bs, current_index |-> r.current_index,
     pick |-> IF r.found THEN r.current_index ELSE (cur + 1) % n]

\* wrr_pass where a later backend wins a tie
RECURSIVE wrr_pass_last_wins(_, _, _, _, _)
wrr_pass_last_wins(bs, i, n, total, best) ==
    IF i >= n THEN [backends |-> bs, total |-> total, best |-> best]
    ELSE IF ~bs[i].is_healthy THEN wrr_pass_last_wins(bs, i + 1, n, total, best)
    ELSE LET bs1 == [bs EXCEPT ![i].current_weight = @ + bs[i].weight]
             best1 == IF best = -1
                         \/ bs1[i].current_weight >= bs1[best].current_weight
                      THEN i ELSE best
         IN wrr_pass_last_wins(bs1, i + 1, n, total + bs[i].weight, best1)

\* select_weighted_round_robin: the pass over the roster
RECURSIVE wrr_pass(_, _, _, _, _)
wrr_pass(bs, i, n, total, best) ==
    IF i >= n THEN [backends |-> bs, total |-> total, best |-> best]
    ELSE IF ~bs[i].is_healthy THEN wrr_pass(bs, i + 1, n, total, best)
    ELSE LET bs1 == [bs EXCEPT ![i].current_weight = @ + bs[i].weight]
             best1 == IF best = -1
                         \/ bs1[i].current_weight > bs1[best].current_weight
                      THEN i ELSE best
         IN wrr_pass(bs1, i + 1, n, total + bs[i].weight, best1)

\* select_weighted_round_robin that takes the winner's own weight off
select_wrr_own_weight(bs, n, cur) ==
    LET r == wrr_pass(bs, 0, n, 0, -1) IN
    IF r.best # -1
    THEN [backends |-> [r.backends EXCEPT
                           ![r.best].current_weight = @ - bs[r.best].weight],
          current_index |-> cur, pick |-> r.best]
    ELSE select_round_robin(r.backends, n, cur)

select_weighted_round_robin(bs, n, cur) ==
    LET r == wrr_pass(bs, 0, n, 0, -1) IN
    IF r.best # -1
    THEN [backends |-> [r.backends EXCEPT
                           ![r.best].current_weight = @ - r.total],
          current_index |-> cur, pick |-> r.best]
    ELSE select_round_robin(r.backends, n, cur)

\* lc_pass where a later backend wins a tie
RECURSIVE lc_pass_last_wins(_, _, _, _, _)
lc_pass_last_wins(bs, i, n, best, min_score) ==
    IF i >= n THEN best
    ELSE IF ~bs[i].is_healthy THEN lc_pass_last_wins(bs, i + 1, n, best, min_score)
    ELSE LET score == (bs[i].active_connections * 100) \div bs[i].weight IN
         IF best = -1 \/ score <= min_score
         THEN lc_pass_last_wins(bs, i + 1, n, i, score)
         ELSE lc_pass_last_wins(bs, i + 1, n, best, min_score)

\* select_least_connections: the pass over the roster (min_score starts at
\* INT_MAX, above every score)
RECURSIVE lc_pass(_, _, _, _, _)
lc_pass(bs, i, n, best, min_score) ==
    IF i >= n THEN best
    ELSE IF ~bs[i].is_healthy THEN lc_pass(bs, i + 1, n, best, min_score)
    ELSE LET score == (bs[i].active_connections * 100) \div bs[i].weight IN
         IF best = -1 \/ score < min_score
         THEN lc_pass(bs, i + 1, n, i, score)
         ELSE lc_pass(bs, i + 1, n, best, min_score)

select_least_connections(bs, n, cur) ==
    LET best == lc_pass(bs, 0, n, -1, 0) IN
    IF best # -1
    THEN [backends |-> bs, current_index |-> cur, pick |-> best]
    ELSE select_round_robin(bs, n, cur)

\* hash = hash * 31 + *p in unsigned 32-bit arithmetic, kept as two 16-bit
\* halves
hash_step(h, c) ==
    LET lo == h.lo * 31 + c
        hi == h.hi * 31 + (lo \div 65536)
    IN [hi |-> hi % 65536, lo |-> lo % 65536]

RECURSIVE ip_hash_from(_, _, _)
ip_hash_from(ip, i, h) ==
    IF i > Len(ip) THEN h
    ELSE ip_hash_from(ip, i + 1, hash_step(h, ip[i]))

ip_hash(ip) == ip_hash_from(ip, 1, [hi |-> 0, lo |-> 0])

\* hash % num_backends
hash_mod(h, n) == ((h.hi % n) * (65536 % n) + (h.lo % n)) % n

\* select_ip_hash: the do-while scan from start
RECURSIVE ip_hash_scan(_, _, _, _)
ip_hash_scan(bs, n, start, index) ==
    IF bs[index].is_healthy THEN index
    ELSE LET nxt == (index + 1) % n IN
         IF nxt # start THEN ip_hash_scan(bs, n, start, nxt) ELSE start

\* select_ip_hash that hands over to round-robin when its backend is down
select_ip_hash_rr(bs, n, cur, ip) ==
    LET start == hash_mod(ip_hash(ip), n) IN
    IF bs[start].is_healthy
    THEN [backends |-> bs, current_index |-> cur, pick |-> start]
    ELSE select_round_robin(bs, n, cur)

select_ip_hash(bs, n, cur, ip) ==
    LET start == hash_mod(ip_hash(ip), n) IN
    [backends |-> bs, current_index |-> cur,
     pick |-> ip_hash_scan(bs, n, start, start)]

select_backend(alg, bs, n, cur, ip) ==
    CASE alg = "ALG_WEIGHTED_ROUND_ROBIN" -> select_weighted_round_robin(bs, n, cur)
      [] alg = "ALG_LEAST_CONNECTIONS"    -> select_least_connections(bs, n, cur)
      [] alg = "ALG_IP_HASH"              -> select_ip_hash(bs, n, cur, ip)
      [] OTHER                            -> select_round_robin(bs, n, cur)

Algorithms ==
    {"ALG_ROUND_ROBIN", "ALG_WEIGHTED_ROUND_ROBIN", "ALG_LEAST_CONNECTIONS",
     "ALG_IP_HASH"}

RECURSIVE SumWeights(_, _)
SumWeights(bs, S) ==
    IF S = {} THEN 0
    ELSE LET i == CHOOSE x \in S : TRUE
         IN bs[i].weight + SumWeights(bs, S \ {i})

HealthySet(bs) == {i \in DOMAIN bs : bs[i].is_healthy}

(***************************************************************************)
(* Weighted round-robin on a fixed roster: the weights and the health      *)
(* flags are chosen at start-up and every current_weight starts at 0.      *)
(***************************************************************************)
SelQuiet ==
    /\ backends = [i \in Roster |-> NewBackend(1)]
    /\ current_index = -1
    /\ picks = <<>>
    /\ hist = [ip \in ClientIps |-> -1]
    /\ nsel = 0

WrrInit ==
    /\ \E w \in [Roster -> 1..MaxWeight], h \in [Roster -> BOOLEAN] :
          backends = [i \in Roster |->
                         [NewBackend(w[i]) EXCEPT !.is_healthy = h[i]]]
    /\ current_index = -1
    /\ picks = <<>>
    /\ hist = [ip \in ClientIps |-> -1]
    /\ nsel = 0

WrrSelect ==
    /\ UNCHANGED notSel
    /\ Len(picks) < MaxPeriods * SumWeights(backends, Roster)
    /\ LET r == select_weighted_round_robin(backends, NumBackends, current_index) IN
       /\ backends' = r.backends
       /\ current_index' = r.current_index
       /\ picks' = Append(picks, r.pick)
    /\ UNCHANGED <<hist, nsel>>

(***************************************************************************)
(* The policies on a roster whose health flags change between selections.  *)
(***************************************************************************)
Select(alg, ip) ==
    /\ UNCHANGED notSel
    /\ nsel < MaxSelects
    /\ nsel' = nsel + 1
    /\ LET r == select_backend(alg, backends, NumBackends, current_index, ip) IN
       /\ backends' = r.backends
       /\ current_index' = r.current_index
       /\ picks' = <<r.pick>>
       /\ hist' = IF alg = "ALG_IP_HASH"
                  THEN [hist EXCEPT ![ip] = r.pick] ELSE hist

\* check_backend_health or the reactive marking sets a backend's flag
SetHealth(i, v) ==
    /\ UNCHANGED notSel
    /\ backends[i].is_healthy # v
    /\ backends' = [backends EXCEPT ![i].is_healthy = v]
    /\ hist' = [ip \in ClientIps |-> -1]
    /\ UNCHANGED <<current_index, picks, nsel>>

\* IP-hash selections, interleaved with round-robin ones and health changes
IpHashNext ==
    \/ \E ip \in ClientIps : Select("ALG_IP_HASH", ip)
    \/ \E ip \in ClientIps : Select("ALG_ROUND_ROBIN", ip)
    \/ \E i \in Roster, v \in BOOLEAN : SetHealth(i, v)

(***************************************************************************)
(* pooled_lb.c on the epoll event loop (event_loop_epoll.c): the session   *)
(* slab, the reactor and its callbacks.  Session slot i of the code is     *)
(* i+1 here and NULL the null session pointer; a session's backend is its  *)
(* index in the roster, -1 for NULL; backend i is the pool identity i+1.   *)
(***************************************************************************)
lb_algorithm == "ALG_WEIGHTED_ROUND_ROBIN"

\* a Connection after calloc or memset, with client_fd = backend_fd = -1
EmptySession ==
    [client_fd |-> -1, backend_fd |-> -1, backend |-> -1,
     request_forwarded |-> FALSE, keep_alive |-> FALSE, next |-> NULL]

init_connection_pool(max_connections) ==
    [connections |-> [i \in 1..max_connections |->
                        [EmptySession EXCEPT
                           !.next = IF i < max_connections THEN i + 1 ELSE NULL]],
     free_list |-> 1,
     num_connections |-> 0]

NoData == [callback |-> "none", user_data |-> NULL]

NoTeardown ==
    [cause |-> "none", keep_alive |-> FALSE, via |-> "none", fd |-> -1,
     alive |-> FALSE, fate |-> "none"]

\* the load balancer and the kernel state it acts on, as one value
Lb ==
    [K |-> Kern, connections |-> connections, free_list |-> free_list,
     num_connections |-> num_connections, backends |-> backends,
     current_index |-> current_index, fd_data |-> fd_data, watch |-> watch,
     batch |-> batch, last |-> last]

SetLb(L) ==
    /\ SetKern(L.K)
    /\ connections' = L.connections
    /\ free_list' = L.free_list
    /\ num_connections' = L.num_connections
    /\ backends' = L.backends
    /\ current_index' = L.current_index
    /\ fd_data' = L.fd_data
    /\ watch' = L.watch
    /\ last' = L.last

\* the entries of events[] whose data pointer is the block just freed
Freed(b, fd) ==
    [i \in DOMAIN b |->
        IF b[i].fd = fd THEN [b[i] EXCEPT !.freed = TRUE] ELSE b[i]]

\* room: malloc has memory for the event_data_t
event_loop_add(L, fd, callback, user_data, room) ==
    IF fd < 0 \/ ~room THEN L
    ELSE [L EXCEPT
            !.batch = IF L.fd_data[fd].callback # "none" THEN Freed(@, fd) ELSE @,
            !.fd_data[fd] = [callback |-> callback, user_data |-> user_data],
            !.watch = @ \cup {fd}]

event_loop_del(L, fd) ==
    IF fd < 0 THEN L
    ELSE [L EXCEPT
            !.batch = IF L.fd_data[fd].callback # "none" THEN Freed(@, fd) ELSE @,
            !.fd_data[fd] = NoData,
            !.watch = @ \ {fd}]

\* the kernel takes a closed descriptor out of the interest set
Closed(L, K1) == [L EXCEPT !.K = K1, !.watch = @ \cap K1.open]

alloc_connection(L) ==
    IF L.free_list = NULL THEN [L |-> L, conn |-> NULL]
    ELSE [L |-> [L EXCEPT !.free_list = L.connections[L.free_list].next,
                          !.connections[L.free_list].next = NULL,
                          !.num_connections = @ + 1],
          conn |-> L.free_list]

\* close(fd) by the load balancer itself
close_fd(L, fd) == Closed(L, close(L.K, fd))

\* free_connection, lines 179-182: the client side of session s
free_client(L, s) ==
    IF s.client_fd >= 0
    THEN close_fd(event_loop_del(L, s.client_fd), s.client_fd)
    ELSE L

\* free_connection, lines 188-195: the pool takes the backend fd back
pool_takes(K, s, nw) ==
    IF s.backend # -1 /\ s.keep_alive
    THEN conn_pool_return(K, s.backend_fd, s.backend + 1, nw)
    ELSE conn_pool_close(K, s.backend_fd)

\* the fd is an idle entry of the pool
Idle(K, fd) ==
    /\ fd \in K.open
    /\ \E c \in 1..K.pool.max_size :
          K.pool.connections[c].fd = fd /\ K.pool.connections[c].state = "FREE"

\* what became of the backend fd of s, given the kernel state K1 after it
Taken(L, K1, s) ==
    [Closed(L, K1) EXCEPT
       !.last.via = IF s.backend # -1 /\ s.keep_alive
                    THEN "conn_pool_return" ELSE "conn_pool_close",
       !.last.fd = s.backend_fd,
       !.last.alive = conn_is_alive(L.K, s.backend_fd),
       !.last.fate = IF Idle(K1, s.backend_fd) THEN "pooled" ELSE "closed"]

NotTaken(L) ==
    [L EXCEPT !.last.via = "none", !.last.fd = -1, !.last.alive = FALSE,
              !.last.fate = "none"]

free_backend_of(L, s, nw) == Taken(L, pool_takes(L.K, s, nw), s)

\* free_connection, lines 185-196: the backend side of session s
free_backend(L, s, nw) ==
    IF s.backend_fd >= 0
    THEN free_backend_of(event_loop_del(L, s.backend_fd), s, nw)
    ELSE NotTaken(L)

\* free_connection, lines 198-200
free_count(L, s) ==
    IF s.backend # -1
    THEN [L EXCEPT !.backends[s.backend].active_connections = @ - 1]
    ELSE L

\* free_connection, lines 202-207
free_push(L, conn) ==
    [L EXCEPT !.connections[conn] = [EmptySession EXCEPT !.next = L.free_list],
              !.free_list = conn,
              !.num_connections = @ - 1]

free_session(L, s, conn, nw) ==
    free_push(free_count(free_backend(free_client(L, s), s, nw), s), conn)

free_connection(L, conn, nw) == free_session(L, L.connections[conn], conn, nw)

\* what a callback leaves behind: segv when it went through a null pointer
Ran(L) == [L |-> L, segv |-> FALSE]
Segv(L) == [L |-> L, segv |-> TRUE]

Ended(L, cause, keep_alive) ==
    [L EXCEPT !.last.cause = cause, !.last.keep_alive = keep_alive]

\* read(fd, ...) <= 0: end of stream, an error, or fd is not open
read_fails(L, fd, kind) == kind \in {"eof", "err"} \/ fd \notin L.K.open

on_client_event(L, fd, kind, conn, header_keep_alive, nw) ==
    LET s == L.connections[conn] IN
    IF kind = "hup"
    THEN Ran(Ended(free_connection([L EXCEPT !.connections[conn].keep_alive = FALSE],
                                   conn, nw),
                   "client_error", s.keep_alive))
    ELSE IF read_fails(L, fd, kind)
    THEN Ran(Ended(free_connection([L EXCEPT !.connections[conn].keep_alive = FALSE],
                                   conn, nw),
                   IF kind = "eof" /\ fd \in L.K.open
                   THEN "client_eof" ELSE "client_error",
                   s.keep_alive))
    ELSE IF ~s.request_forwarded
    THEN IF s.backend = -1 THEN Segv(L)
         ELSE Ran([L EXCEPT !.connections[conn].keep_alive = header_keep_alive,
                            !.connections[conn].request_forwarded = TRUE])
    ELSE IF s.backend_fd >= 0 /\ s.backend = -1 THEN Segv(L)
    ELSE Ran(L)

on_backend_event(L, fd, kind, conn, nw) ==
    LET s == L.connections[conn] IN
    IF kind = "hup"
    THEN Ran(Ended(free_connection([L EXCEPT !.connections[conn].keep_alive = FALSE],
                                   conn, nw),
                   "backend_error", s.keep_alive))
    ELSE IF read_fails(L, fd, kind)
    THEN Ran(Ended(free_connection(L, conn, nw),
                   IF kind = "eof" /\ fd \in L.K.open
                   THEN "backend_eof" ELSE "backend_error",
                   s.keep_alive))
    ELSE IF s.client_fd >= 0 /\ s.backend = -1 THEN Segv(L)
    ELSE Ran(L)

\* conn_pool_get on behalf of a session; what the pool closes on the way
\* leaves the interest set before the dial can reuse the number
pool_gave(L, before, r) ==
    [L |-> [L EXCEPT !.K = r.K, !.watch = @ \cap before.K.open], fd |-> r.fd]

get_backend_connection(L, backend, nw, ok) ==
    pool_gave(L, get_locked(L.K, backend + 1, nw),
              conn_pool_get(L.K, backend + 1, nw, ok))

\* on_server_event, lines 553-567: g is what get_backend_connection gave
on_server_leased(g, backend, conn, client_fd, nw, room) ==
    IF g.fd < 0
    THEN Ended(free_connection(
                 [g.L EXCEPT !.connections[conn].backend_fd = g.fd,
                             !.backends[backend].failed_requests = @ + 1,
                             !.backends[backend].is_healthy = FALSE],
                 conn, nw),
               "lease_failed", TRUE)
    ELSE event_loop_add(
           event_loop_add(
             [g.L EXCEPT !.connections[conn].backend_fd = g.fd,
                         !.connections[conn].backend = backend,
                         !.backends[backend].active_connections = @ + 1],
             client_fd, "on_client_event", conn, room[1]),
           g.fd, "on_backend_event", conn, room[2])

Selected(L, sel) ==
    [L EXCEPT !.backends = sel.backends, !.current_index = sel.current_index]

\* on_server_event, lines 546-553: sel is what select_backend returned
on_server_selected(L, sel, conn, client_fd, nw, ok, room) ==
    IF sel.pick = -1
    THEN Ended(free_connection(Selected(L, sel), conn, nw), "no_backend", TRUE)
    ELSE on_server_leased(
           get_backend_connection(Selected(L, sel), sel.pick, nw, ok),
           sel.pick, conn, client_fd, nw, room)

\* on_server_event, lines 541-546
on_server_session(L, conn, client_fd, client_ip, nw, ok, room) ==
    on_server_selected(L,
        select_backend(lb_algorithm, L.backends, LbBackends, L.current_index,
                       client_ip),
        conn, client_fd, nw, ok, room)

\* on_server_event, lines 534-544: a is what alloc_connection returned
on_server_allocated(a, client_fd, client_ip, nw, ok, room) ==
    IF a.conn = NULL THEN close_fd(a.L, client_fd)
    ELSE on_server_session(
           [a.L EXCEPT !.connections[a.conn].client_fd = client_fd,
                       !.connections[a.conn].keep_alive = TRUE],
           a.conn, client_fd, client_ip, nw, ok, room)

\* on_server_event, lines 530-534: client_fd is what accept returned
on_server_accepted(L, client_fd, client_ip, nw, ok, room) ==
    IF client_fd < 0 THEN L
    ELSE on_server_allocated(
           alloc_connection([L EXCEPT !.K.open = @ \cup {client_fd}]),
           client_fd, client_ip, nw, ok, room)

on_server_event(L, client_ip, nw, ok, room) ==
    on_server_accepted(L, LowestFree(L.K.open), client_ip, nw, ok, room)

\* health_check_all: up holds the backends whose probe connects
RECURSIVE health_check_from(_, _, _, _)
health_check_from(bs, i, nw, up) ==
    IF i >= LbBackends THEN bs
    ELSE IF nw - bs[i].last_health_check < HEALTH_CHECK_INTERVAL
    THEN health_check_from(bs, i + 1, nw, up)
    ELSE health_check_from([bs EXCEPT ![i].last_health_check = nw,
                                      ![i].is_healthy = (i \in up)],
                           i + 1, nw, up)

Due(bs, nw) ==
    {i \in DOMAIN bs : nw - bs[i].last_health_check >= HEALTH_CHECK_INTERVAL}

health_check_all(L, nw, up) ==
    Closed([L EXCEPT !.backends = health_check_from(@, 0, nw, up)],
           conn_pool_cleanup(L.K, nw).K)

(***************************************************************************)
(* main's loop: health_check_all, then event_loop_run, which waits and     *)
(* dispatches the batch one callback at a time.                            *)
(***************************************************************************)
LbQuiet ==
    /\ connections = init_connection_pool(MaxClients).connections
    /\ free_list = init_connection_pool(MaxClients).free_list
    /\ num_connections = init_connection_pool(MaxClients).num_connections
    /\ fd_data = [fd \in Fds |-> NoData]
    /\ watch = {}
    /\ batch = <<>>
    /\ phase = "health"
    /\ last = NoTeardown
    /\ accepts = 0

LbInit ==
    /\ LbQuiet
    /\ backends = [i \in 0..(LbBackends - 1) |-> NewBackend(1)]
    /\ current_index = -1
    /\ pool = conn_pool_create(LbPoolSize, DEFAULT_POOL_TTL)
    /\ open = {}
    /\ dead = {}
    /\ ebadf = FALSE
    /\ now = TickStep

HealthCheckAll(up) ==
    /\ UNCHANGED notLb
    /\ phase = "health"
    /\ up \subseteq Due(backends, now)
    /\ SetLb(health_check_all(Lb, now, up))
    /\ phase' = "wait"
    /\ UNCHANGED <<batch, now, accepts>>

\* an entry of events[] for a registered descriptor
Event(fd) ==
    [fd |-> fd, callback |-> fd_data[fd].callback,
     user_data |-> fd_data[fd].user_data, freed |-> FALSE]

\* the listening socket is readable
ServerEvent ==
    [fd |-> 0, callback |-> "on_server_event", user_data |-> NULL,
     freed |-> FALSE]

Ready ==
    {Event(fd) : fd \in watch \cap open}
      \cup (IF accepts < MaxAccepts THEN {ServerEvent} ELSE {})

Batches ==
    {<<e>> : e \in Ready}
      \cup {B \in Ready \X Ready : B[1].fd # B[2].fd}

\* epoll_wait returns with events
Wait(B) ==
    /\ UNCHANGED notLb
    /\ phase = "wait"
    /\ num_connections > -MaxClients
    /\ B \in Batches
    /\ Len(B) <= MaxBatch
    /\ batch' = B
    /\ phase' = "dispatch"
    /\ accepts' = accepts + Cardinality({i \in DOMAIN B : B[i].fd = 0})
    /\ UNCHANGED <<pool, open, dead, ebadf, now, backends, current_index,
                   connections, free_list, num_connections, fd_data, watch, last>>

Rest(L) == IF L.batch = <<>> THEN "health" ELSE "dispatch"

\* the entry being dispatched is taken off, and a peer that has closed or
\* reset its end (eof, hup) is seen as such from here on
Popped(fd, kind) ==
    [Lb EXCEPT !.batch = Tail(batch),
               !.K.dead = IF kind \in {"eof", "hup"} /\ fd \in open
                          THEN @ \cup {fd} ELSE @]

Finish(r) ==
    /\ SetLb(r.L)
    /\ batch' = r.L.batch
    /\ phase' = IF r.segv THEN "crashed" ELSE Rest(r.L)
    /\ UNCHANGED <<now, accepts>>

DispatchServer(client_ip, ok, room) ==
    /\ UNCHANGED notLb
    /\ phase = "dispatch"
    /\ Head(batch).callback = "on_server_event"
    /\ Finish(Ran(on_server_event(Popped(0, "data"), client_ip, now, ok,
                                  room)))

\* a client callback: kind is what the events word and the read show (hup:
\* EVENT_ERROR or EVENT_HUP; data, eof, err: what read returns).  When the
\* entry's data has been freed this is the run in which the freed block
\* still holds what it held.
DispatchClient(kind, header_keep_alive) ==
    /\ UNCHANGED notLb
    /\ phase = "dispatch"
    /\ Head(batch).callback = "on_client_event"
    /\ LET e == Head(batch)
       IN Finish(on_client_event(Popped(e.fd, kind), e.fd, kind, e.user_data,
                                 header_keep_alive, now))

DispatchBackend(kind) ==
    /\ UNCHANGED notLb
    /\ phase = "dispatch"
    /\ Head(batch).callback = "on_backend_event"
    /\ LET e == Head(batch)
       IN Finish(on_backend_event(Popped(e.fd, kind), e.fd, kind, e.user_data,
                                  now))

\* the entry's data has been freed and the block no longer holds a callback
\* the process can survive
DispatchFreed ==
    /\ UNCHANGED notLb
    /\ phase = "dispatch"
    /\ Head(batch).freed
    /\ phase' = "crashed"
    /\ UNCHANGED <<poolVars, selVars, connections, free_list, num_connections,
                   fd_data, watch, batch, last, accepts>>

EventKinds == {"data", "eof", "err", "hup"}

event_loop_run ==
    \/ \E B \in Batches : Wait(B)
    \/ \E ip \in ClientIps, ok \in BOOLEAN, room \in BOOLEAN \X BOOLEAN :
            DispatchServer(ip, ok, room)
    \/ \E kind \in EventKinds, ka \in BOOLEAN : DispatchClient(kind, ka)
    \/ \E kind \in EventKinds : DispatchBackend(kind)
    \/ DispatchFreed

LbNext ==
    \/ \E up \in SUBSET DOMAIN backends : HealthCheckAll(up)
    \/ event_loop_run

(***************************************************************************)
(* The rate limiter (chapter-07 rate_limiter.c).  time(NULL) counts whole  *)
(* seconds; rate, burst and tokens are doubles, held here in halves.       *)
(***************************************************************************)
Key_ab == <<97, 98>>
Key_bA == <<98, 65>>
    \* the keys "ab" and "bA" as chars; they hash to the same chain
Keys == {Key_ab, Key_bA}

\* a key of KEY_SIZE characters ("aaa...a"), one more than RateEntry.key
\* holds beside its terminating NUL
Key_long == [i \in 1..KEY_SIZE |-> 97]

RateAlgorithms ==
    {"RATE_TOKEN_BUCKET", "RATE_SLIDING_WINDOW", "RATE_FIXED_WINDOW"}

\* hash is an unsigned int and only hash % HASH_SIZE is used; HASH_SIZE
\* divides 2^32, so the remainder may be taken after every character
RECURSIVE hash_from(_, _, _)
hash_from(key, i, hash) ==
    IF i > Len(key) \/ hash < 0 THEN hash    \* hash is unsigned
    ELSE hash_from(key, i + 1, ((hash * 32 + hash) + key[i]) % HASH_SIZE)

hash_key(key) == hash_from(key, 1, 5381) % HASH_SIZE

\* the chains of limiter->buckets[] that the keys can reach; every other
\* bucket stays NULL
Chains == {hash_key(k) : k \in Keys \cup {Key_long}}

time(w) == w \div 1000

difftime(t1, t0) == t1 - t0

rate_limiter_create(algorithm, rate, burst) ==
    [algorithm |-> algorithm, rate |-> rate, burst |-> burst,
     window_size |-> burst \div ONE,
     buckets |-> [i \in Chains |-> <<>>],
     global_count |-> 0, global_limit |-> 0, global_window_start |-> 0,
     allowed |-> 0, denied |-> 0]

rate_limiter_set_global(L, limit) == [L EXCEPT !.global_limit = limit]

\* strncpy(dst, src, n) into a zeroed dst of n + 1 chars, read back as a
\* string
strncpy(src, n) == IF Len(src) <= n THEN src ELSE SubSeq(src, 1, n)

NewEntry(L, key, t) ==
    [key |-> strncpy(key, KEY_SIZE - 1), tokens |-> L.burst, window_count |-> 0,
     window_start |-> t, last_update |-> t]

\* the position of key's entry in a chain, NULL when it has none
RECURSIVE chain_find(_, _, _)
chain_find(chain, key, i) ==
    IF i > Len(chain) THEN NULL
    ELSE IF chain[i].key = key THEN i
    ELSE chain_find(chain, key, i + 1)

\* ok: whether calloc gives memory for a new entry
find_or_create_entry(L, key, t, ok) ==
    LET idx == hash_key(key)
        at == chain_find(L.buckets[idx], key, 1)
    IN  IF at # NULL THEN [L |-> L, idx |-> idx, at |-> at]
        ELSE IF ~ok THEN [L |-> L, idx |-> idx, at |-> NULL]
        ELSE [L |-> [L EXCEPT !.buckets[idx] = <<NewEntry(L, key, t)>> \o @],
              idx |-> idx, at |-> 1]

refill(L, entry, t) ==
    entry.tokens + difftime(t, entry.last_update) * L.rate

spend(entry, tokens, t) ==
    IF tokens >= ONE
    THEN [entry |-> [entry EXCEPT !.tokens = tokens - ONE, !.last_update = t],
          allowed |-> 1]
    ELSE [entry |-> [entry EXCEPT !.tokens = tokens, !.last_update = t],
          allowed |-> 0]

token_bucket_allow_unclamped(L, entry, t) ==
    spend(entry, refill(L, entry, t), t)

token_bucket_allow(L, entry, t) ==
    IF refill(L, entry, t) > L.burst
    THEN spend(entry, L.burst, t)
    ELSE spend(entry, refill(L, entry, t), t)

(***************************************************************************)
(* The double arithmetic of sliding_window_allow.  A double in [0, 1) is   *)
(* the sequence of the bits after its binary point, first bit first; every *)
(* operation rounds to DBL_MANT_DIG significant bits, to nearest, ties to  *)
(* even, as IEEE 754 binary64 does.                                        *)
(***************************************************************************)
DBL_MANT_DIG == 53

\* the first n bits of r/s, 0 <= r < s, by long division, and what is left
RECURSIVE div_bits(_, _, _, _)
div_bits(r, s, n, acc) ==
    IF Len(acc) = n THEN [bits |-> acc, rem |-> r]
    ELSE div_bits((2 * r) % s, s, n, Append(acc, (2 * r) \div s))

RECURSIVE LeadingZeros(_, _)
LeadingZeros(bits, i) ==
    IF i > Len(bits) \/ bits[i] = 1 THEN i - 1 ELSE LeadingZeros(bits, i + 1)

RECURSIVE BitLen(_)
BitLen(n) == IF n = 0 THEN 0 ELSE 1 + BitLen(n \div 2)

\* rounding bits to its first K bits goes up: the next bit is set and
\* either more follows (sticky: beyond the sequence too) or bit K is set
RoundsUp(bits, K, sticky) ==
    /\ K < Len(bits)
    /\ bits[K + 1] = 1
    /\ \/ sticky
       \/ \E i \in (K + 2)..Len(bits) : bits[i] = 1
       \/ K >= 1 /\ bits[K] = 1

AllOnes(bits, K) == \A i \in 1..K : i <= Len(bits) /\ bits[i] = 1

\* bits plus one unit in its last place; all ones wrap to all zeros
Incr(bits) ==
    IF AllOnes(bits, Len(bits)) THEN [i \in 1..Len(bits) |-> 0]
    ELSE LET j == CHOOSE k \in 1..Len(bits) :
                     /\ bits[k] = 0
                     /\ \A m \in (k + 1)..Len(bits) : bits[m] = 1
         IN  [i \in 1..Len(bits) |->
                 IF i < j THEN bits[i] ELSE IF i = j THEN 1 ELSE 0]

\* bits rounded to its first K bits; one: the rounding reached 1.0
Rounded(bits, K, sticky) ==
    IF K >= Len(bits) THEN [bits |-> bits, one |-> FALSE]
    ELSE IF RoundsUp(bits, K, sticky)
    THEN [bits |-> Incr(SubSeq(bits, 1, K)), one |-> AllOnes(bits, K)]
    ELSE [bits |-> SubSeq(bits, 1, K), one |-> FALSE]

\* (double)a / s for 0 < a < s
dbl_div(a, s) ==
    Rounded(div_bits(a, s, DivBits, <<>>).bits,
            LeadingZeros(div_bits(a, s, DivBits, <<>>).bits, 1) + DBL_MANT_DIG,
            div_bits(a, s, DivBits, <<>>).rem # 0).bits

Inverted(bits) == [i \in 1..Len(bits) |-> 1 - bits[i]]

\* 1.0 - q for a double 0 < q < 1
dbl_one_minus(q) ==
    Rounded(Incr(Inverted(q)),
            LeadingZeros(Incr(Inverted(q)), 1) + DBL_MANT_DIG, FALSE)

\* one step of a multiplication, last bit first: v is the bit times the
\* factor plus what was carried
mul_step(v, frac) == [int |-> v \div 2, frac |-> <<v % 2>> \o frac]

\* bits times the integer c, exactly: the integer part and the fraction
RECURSIVE mul_bits(_, _, _)
mul_bits(bits, c, P) ==
    IF Len(P.frac) = Len(bits) THEN P
    ELSE mul_bits(bits, c,
                  mul_step(bits[Len(bits) - Len(P.frac)] * c + P.int, P.frac))

\* (long)(double): P rounded to a double, then cut to its integer part
dbl_to_long(P) ==
    IF RoundsUp(P.frac,
                IF P.int = 0 THEN LeadingZeros(P.frac, 1) + DBL_MANT_DIG
                ELSE DBL_MANT_DIG - BitLen(P.int), FALSE)
       /\ AllOnes(P.frac,
                  IF P.int = 0 THEN LeadingZeros(P.frac, 1) + DBL_MANT_DIG
                  ELSE DBL_MANT_DIG - BitLen(P.int))
    THEN P.int + 1 ELSE P.int

\* (long)(count * (1.0 - (double)a / s)) for 0 < a < s
dbl_weighted(count, a, s) ==
    IF dbl_one_minus(dbl_div(a, s)).one THEN count
    ELSE dbl_to_long(mul_bits(dbl_one_minus(dbl_div(a, s)).bits, count,
                              [int |-> 0, frac |-> <<>>]))

\* window_count * weight, cut to a long; weight is
\* 1.0 - (double)(since - window_size) / window_size, and 0 when that is
\* negative
weighted_count(L, entry, since) ==
    IF since >= 2 * L.window_size THEN 0
    ELSE IF since = L.window_size THEN entry.window_count
    ELSE dbl_weighted(entry.window_count, since - L.window_size,
                      L.window_size)

window_check(L, entry) ==
    IF entry.window_count * ONE < L.rate * L.window_size
    THEN [entry |-> [entry EXCEPT !.window_count = @ + 1], allowed |-> 1]
    ELSE [entry |-> entry, allowed |-> 0]

sliding_window_allow(L, entry, t) ==
    IF t - entry.window_start >= L.window_size
    THEN window_check(L,
             [entry EXCEPT
                 !.window_count =
                     weighted_count(L, entry, t - entry.window_start),
                 !.window_start = t])
    ELSE window_check(L, entry)

fixed_window_allow(L, entry, t) ==
    IF t - entry.window_start >= L.window_size
    THEN window_check(L, [entry EXCEPT !.window_count = 0,
                                       !.window_start = t])
    ELSE window_check(L, entry)

algorithm_allow(L, entry, t) ==
    CASE L.algorithm = "RATE_TOKEN_BUCKET" -> token_bucket_allow(L, entry, t)
      [] L.algorithm = "RATE_SLIDING_WINDOW" ->
             sliding_window_allow(L, entry, t)
      [] L.algorithm = "RATE_FIXED_WINDOW" -> fixed_window_allow(L, entry, t)

global_rolled(L, t) ==
    IF L.global_limit > 0 /\ t # L.global_window_start
    THEN [L EXCEPT !.global_count = 0, !.global_window_start = t]
    ELSE L

global_denies(L) ==
    L.global_limit > 0 /\ L.global_count >= L.global_limit

counted(L, allowed) ==
    IF allowed = 1
    THEN [L EXCEPT !.allowed = @ + 1, !.global_count = @ + 1]
    ELSE [L EXCEPT !.denied = @ + 1]

\* F: what find_or_create_entry gave; r: what the algorithm decided
allow_decided(F, r) ==
    [L |-> counted([F.L EXCEPT !.buckets[F.idx][F.at] = r.entry], r.allowed),
     result |-> r.allowed, path |-> "entry"]

allow_closed(F, t) ==
    IF F.at = NULL
    THEN [L |-> F.L, result |-> 0, path |-> "error"]
    ELSE allow_decided(F, algorithm_allow(F.L, F.L.buckets[F.idx][F.at], t))

allow_found(F, t) ==
    IF F.at = NULL
    THEN [L |-> F.L, result |-> 1, path |-> "error"]
    ELSE allow_decided(F, algorithm_allow(F.L, F.L.buckets[F.idx][F.at], t))

allow_under_cap(G, key, t, ok) ==
    IF global_denies(G)
    THEN [L |-> [G EXCEPT !.denied = @ + 1], result |-> 0, path |-> "global"]
    ELSE allow_found(find_or_create_entry(G, key, t, ok), t)

rate_limiter_allow(L, key, t, ok) ==
    allow_under_cap(global_rolled(L, t), key, t, ok)

Fresh(entry, t) == ~(t - entry.last_update > EXPIRY)

\* the entries of the chains in todo, counted as rate_limiter_get_stats does
RECURSIVE active_clients(_, _)
active_clients(buckets, todo) ==
    IF todo = {} THEN 0
    ELSE LET i == CHOOSE c \in todo : TRUE
         IN  Len(buckets[i]) + active_clients(buckets, todo \ {i})

swept(L, t) ==
    LET keep(entry) == Fresh(entry, t)
    IN  [i \in Chains |-> SelectSeq(L.buckets[i], keep)]

rate_limiter_cleanup(L, t) ==
    [L |-> [L EXCEPT !.buckets = swept(L, t)],
     cleaned |-> active_clients(L.buckets, Chains)
                 - active_clients(swept(L, t), Chains)]

NoCall == [op |-> "none", key |-> <<>>, result |-> 0, path |-> "none"]

RlQuiet ==
    /\ limiter = rate_limiter_create("RATE_TOKEN_BUCKET", ONE, ONE)
    /\ wall = StartWall
    /\ rl_last = NoCall
    /\ calls = 0
    /\ waits = 0
    /\ admits = 0
    /\ used = [k \in Keys |-> -1]
    /\ rl_trace = <<>>

\* main configures the limiter before it serves: rate_limiter_create, then
\* rate_limiter_set_global
Limiters ==
    {rate_limiter_set_global(rate_limiter_create(a, r, b), g) :
        a \in RateAlgorithms, r \in 1..MaxRate, b \in ONE..MaxBurst,
        g \in 0..MaxGlobal}

RlInit ==
    /\ limiter \in Limiters
    /\ wall = StartWall
    /\ rl_last = NoCall
    /\ calls = 0
    /\ waits = 0
    /\ admits = 0
    /\ used = [k \in Keys |-> -1]
    /\ rl_trace = <<>>

\* one rate_limiter_allow(limiter, key) call
AllowStep(key, ok, most) ==
    /\ UNCHANGED notRl
    /\ calls < most
    /\ LET r == rate_limiter_allow(limiter, key, time(wall), ok)
       IN  /\ limiter' = r.L
           /\ rl_last' = [op |-> "allow", key |-> key, result |-> r.result,
                          path |-> r.path]
           /\ admits' = admits + r.result
    /\ calls' = calls + 1
    /\ used' = [k \in Keys |-> IF k = key THEN time(wall) ELSE used[k]]
    /\ UNCHANGED <<wall, waits>>

RlAllow(key, ok) ==
    /\ AllowStep(key, ok, MaxCalls)
    /\ UNCHANGED rl_trace

\* one rate_limiter_cleanup(limiter) call
RlCleanup ==
    /\ UNCHANGED notRl
    /\ LET r == rate_limiter_cleanup(limiter, time(wall))
       IN  /\ limiter' = r.L
           /\ rl_last' = [op |-> "cleanup", key |-> <<>>,
                          result |-> r.cleaned, path |-> "cleanup"]
    /\ UNCHANGED <<wall, calls, waits, admits, used, rl_trace>>

\* the wall clock moves on by ms milliseconds between two calls
WaitStep(ms) ==
    /\ UNCHANGED notRl
    /\ waits < MaxWaits
    /\ wall' = wall + ms
    /\ waits' = waits + 1
    /\ admits' = IF time(wall + ms) = time(wall) THEN admits ELSE 0
    /\ UNCHANGED <<limiter, rl_last, calls, used>>

RlWait(ms) ==
    /\ WaitStep(ms)
    /\ UNCHANGED rl_trace

RlNext ==
    \/ \E key \in Keys, ok \in BOOLEAN : RlAllow(key, ok)
    \/ RlCleanup
    \/ \E ms \in {ShortWait, LongWait} : RlWait(ms)

\* the burst scenario: one key, token bucket, 10 requests per second, burst 10
BurstInit ==
    /\ limiter = rate_limiter_create("RATE_TOKEN_BUCKET", 10 * ONE, 10 * ONE)
    /\ wall \in {StartWall, StartWall + ShortWait}
    /\ rl_last = NoCall
    /\ calls = 0
    /\ waits = 0
    /\ admits = 0
    /\ used = [k \in Keys |-> -1]
    /\ rl_trace = <<>>

BurstAllow ==
    /\ AllowStep(Key_ab, TRUE, BurstCalls)
    /\ rl_trace' = Append(rl_trace, [op |-> "allow", n |-> rl_last'.result])

BurstWait ==
    /\ WaitStep(ShortWait)
    /\ rl_trace' = Append(rl_trace, [op |-> "wait", n |-> ShortWait])

BurstNext == BurstAllow \/ BurstWait

(***************************************************************************)
(* Hot reload (chapter-10 config.c): the configuration file, its           *)
(* validation, and main's reload loop.                                     *)
(*                                                                         *)
(* What a configuration file says is a record whose fields are <<>> where  *)
(* the file has no such key and <<v>> where it has one; config_load turns  *)
(* it into a config_t, filling the defaults in.  A string is a sequence of *)
(* one-character strings.                                                  *)
(***************************************************************************)
Str_a == <<"a">>
Str_rr == <<"r", "r">>

Digit(d) == CASE d = 0 -> "0" [] d = 1 -> "1" [] d = 2 -> "2" [] d = 3 -> "3"
              [] d = 4 -> "4" [] d = 5 -> "5" [] d = 6 -> "6" [] d = 7 -> "7"
              [] d = 8 -> "8" [] d = 9 -> "9"

\* printf's %d
RECURSIVE decimal(_)
decimal(n) ==
    IF n < 0 THEN <<"-">> \o decimal(-n)
    ELSE IF n < 10 THEN <<Digit(n)>>
    ELSE Append(decimal(n \div 10), Digit(n % 10))

\* snprintf(out, size, "%d", n): at most size - 1 characters are kept
snprintf(size, n) ==
    IF Len(decimal(n)) <= size - 1 THEN decimal(n)
    ELSE SubSeq(decimal(n), 1, size - 1)

\* a "backends" element of the file
FileBackends ==
    { [host |-> <<Str_a>>, port |-> <<80>>, weight |-> <<>>],
      [host |-> <<Str_a>>, port |-> <<123456>>, weight |-> <<2>>],
      [host |-> << <<>> >>, port |-> <<80>>, weight |-> <<>>],
      [host |-> <<Str_a>>, port |-> <<>>, weight |-> <<>>] }

\* the sequences over S of length n at most
SeqsUpTo(S, n) == UNION {[1..k -> S] : k \in 0..n}

\* the files an operator may leave at the configured path
Texts ==
    { [listen_port |-> lp, backends |-> bs] :
        lp \in {<<>>, <<0>>, <<65535>>, <<65536>>},
        bs \in SeqsUpTo(FileBackends, MaxFileBackends) }

\* a path at which fopen finds nothing
NoText == [listen_port |-> <<>>, backends |-> <<>>]

\* lines 219-248: one element of "backends"
load_backend(fb) ==
    [host |-> IF fb.host = <<>> THEN <<>> ELSE fb.host[1],
     port |-> IF fb.port = <<>> THEN <<>> ELSE snprintf(6, fb.port[1]),
     weight |-> IF fb.weight = <<>> THEN 1 ELSE fb.weight[1],
     max_connections |-> 100]

\* the config_t that config_load builds from a file it could read
loaded(text, mtime) ==
    [listen_port |-> IF text.listen_port = <<>> THEN 8080
                     ELSE text.listen_port[1],
     algorithm |-> Str_rr,
     backends |-> [i \in 1..Len(text.backends) |->
                      load_backend(text.backends[i])],
     num_backends |-> Len(text.backends),
     file_mtime |-> mtime]

\* config_load: <<>> for NULL (fopen, malloc or calloc failed)
config_load(text, mtime, ok) ==
    IF ok THEN <<loaded(text, mtime)>> ELSE <<>>

\* config_validate of a configuration that is not NULL
config_validate(cfg) ==
    IF cfg.listen_port < 1 \/ cfg.listen_port > 65535 THEN 0
    ELSE IF cfg.num_backends = 0 THEN 0
    ELSE IF \E i \in 1..cfg.num_backends :
                \/ cfg.backends[i].host = <<>>
                \/ cfg.backends[i].port = <<>> THEN 0
    ELSE 1

config_reload_unchecked(text, mtime, ok) == config_load(text, mtime, ok)

\* config_reload: <<>> for NULL
config_reload(text, mtime, ok) ==
    IF config_load(text, mtime, ok) = <<>> THEN <<>>
    ELSE IF config_validate(config_load(text, mtime, ok)[1]) = 0 THEN <<>>
    ELSE config_load(text, mtime, ok)

config_equal(a, b) ==
    IF a.listen_port # b.listen_port THEN 0
    ELSE IF a.algorithm # b.algorithm THEN 0
    ELSE IF a.num_backends # b.num_backends THEN 0
    ELSE IF \E i \in 1..a.num_backends :
                \/ a.backends[i].host # b.backends[i].host
                \/ a.backends[i].port # b.backends[i].port
                \/ a.backends[i].weight # b.backends[i].weight THEN 0
    ELSE 1

config_changed(cfg, mtime) == mtime # cfg.file_mtime

\* what the last turn of main's loop saw: whether it reloaded, whether the
\* file could be loaded, what config_validate and config_equal said of it;
\* turn tells one turn of the loop from the next
NoReload(turn) ==
    [turn |-> turn, asked |-> FALSE, read |-> FALSE, valid |-> 0, equal |-> 0]

Reloaded(turn, cfg, text, mtime, ok) ==
    [turn |-> turn, asked |-> TRUE, read |-> ok,
     valid |-> IF ok THEN config_validate(loaded(text, mtime)) ELSE 0,
     equal |-> IF ok THEN config_equal(cfg, loaded(text, mtime)) ELSE 0]

CfgQuiet ==
    /\ g_config = loaded([listen_port |-> <<>>,
                          backends |-> <<[host |-> <<Str_a>>,
                                          port |-> <<80>>,
                                          weight |-> <<>>]>>], 0)
    /\ g_reload = 0
    /\ g_running = 1
    /\ conf_mtime = 0
    /\ hr_last = NoReload(0)

\* main, lines 545-560: the process goes on only with a configuration that
\* it could load and that passed config_validate
ReloadInit ==
    /\ \E text \in Texts :
          /\ config_validate(loaded(text, 0)) = 1
          /\ g_config = loaded(text, 0)
    /\ g_reload = 0
    /\ g_running = 1
    /\ conf_mtime = 0
    /\ hr_last = NoReload(0)

handle_sighup ==
    /\ UNCHANGED notCfg
    /\ g_running = 1
    /\ g_reload' = 1
    /\ UNCHANGED <<g_config, g_running, conf_mtime, hr_last>>

handle_sigterm ==
    /\ UNCHANGED notCfg
    /\ g_running = 1
    /\ g_running' = 0
    /\ UNCHANGED <<g_config, g_reload, conf_mtime, hr_last>>

\* the operator saves the file
EditFile ==
    /\ UNCHANGED notCfg
    /\ conf_mtime < MaxEdits
    /\ conf_mtime' = conf_mtime + 1
    /\ UNCHANGED <<g_config, g_reload, g_running, hr_last>>

\* lines 578-595: what g_config is after the reload that got new_cfg
swapped(cfg, new_cfg) ==
    IF new_cfg = <<>> THEN cfg
    ELSE IF config_equal(cfg, new_cfg[1]) = 0 THEN new_cfg[1]
    ELSE cfg

\* one turn of main's loop (lines 572-605) with the file saying text
LoopTurn(text, ok) ==
    /\ UNCHANGED notCfg
    /\ g_running = 1
    /\ g_config' = IF g_reload = 1
                   THEN swapped(g_config, config_reload(text, conf_mtime, ok))
                   ELSE g_config
    /\ hr_last' = IF g_reload = 1
                  THEN Reloaded(1 - hr_last.turn, g_config, text,
                                conf_mtime, ok)
                  ELSE NoReload(1 - hr_last.turn)
    /\ g_reload' = IF config_changed(g_config', conf_mtime) THEN 1 ELSE 0
    /\ UNCHANGED <<g_running, conf_mtime>>

\* a turn that finds g_reload clear does not look at the file
IdleTurn == g_reload = 0 /\ LoopTurn(NoText, TRUE)

ReloadTurn(text, ok) == g_reload = 1 /\ LoopTurn(text, ok)

\* main's loop takes a turn every second for as long as g_running is set
MainLoop ==
    \/ IdleTurn
    \/ \E text \in Texts : ReloadTurn(text, TRUE)
    \/ ReloadTurn(NoText, FALSE)

ReloadNext ==
    \/ handle_sighup
    \/ handle_sigterm
    \/ EditFile
    \/ IdleTurn
    \/ \E text \in Texts : ReloadTurn(text, TRUE)
    \/ ReloadTurn(NoText, FALSE)

(***************************************************************************)
(* Hot reload (chapter-10 config.c): draining, and the PID file through    *)
(* which a new process finds the one it replaces.                          *)
(***************************************************************************)
\* memset(state, 0, sizeof(reload_state_t))
NoDrain ==
    [is_draining |-> 0, active_connections |-> 0, drain_start |-> 0,
     drain_timeout |-> 0]

reload_start_drain(S, timeout_seconds, t) ==
    [S EXCEPT !.is_draining = 1, !.drain_start = t,
              !.drain_timeout = timeout_seconds]

reload_drain_complete_late(S, t) ==
    IF S.is_draining = 0 THEN 1
    ELSE IF S.active_connections = 0 THEN 1
    ELSE IF t - S.drain_start > S.drain_timeout THEN 1
    ELSE 0

reload_drain_complete(S, t) ==
    IF S.is_draining = 0 THEN 1
    ELSE IF S.active_connections = 0 THEN 1
    ELSE IF t - S.drain_start >= S.drain_timeout THEN 1
    ELSE 0

Pids == 1..MaxProcs

\* old is what reload_init returned to the process, sent the process that
\* its reload_signal_old sent SIGUSR2 to (0 for none)
NotStarted == [alive |-> FALSE, pc |-> "new", old |-> 0, sent |-> 0]

DrainQuiet ==
    /\ state = NoDrain
    /\ hr_wall = StartWall
    /\ drain_began = -1
    /\ pid_file = <<>>
    /\ procs = [p \in Pids |-> NotStarted]

\* a process that serves, some way into a second of the wall clock
DrainInit ==
    /\ state = NoDrain
    /\ hr_wall \in {StartWall, StartWall + ShortWait}
    /\ drain_began = -1
    /\ pid_file = <<>>
    /\ procs = [p \in Pids |-> NotStarted]

StartDrain(timeout_seconds) ==
    /\ UNCHANGED notRs
    /\ state' = reload_start_drain(state, timeout_seconds, time(hr_wall))
    /\ drain_began' = hr_wall
    /\ UNCHANGED <<hr_wall, pid_file, procs>>

SessionBegins ==
    /\ UNCHANGED notRs
    /\ state.active_connections < MaxActive
    /\ state' = [state EXCEPT !.active_connections = @ + 1]
    /\ UNCHANGED <<hr_wall, drain_began, pid_file, procs>>

SessionEnds ==
    /\ UNCHANGED notRs
    /\ state.active_connections > 0
    /\ state' = [state EXCEPT !.active_connections = @ - 1]
    /\ UNCHANGED <<hr_wall, drain_began, pid_file, procs>>

DrainWait ==
    /\ UNCHANGED notRs
    /\ hr_wall + ShortWait <= StartWall + MaxDrainWall
    /\ hr_wall' = hr_wall + ShortWait
    /\ UNCHANGED <<state, drain_began, pid_file, procs>>

DrainNext ==
    \/ \E T \in 0..MaxTimeout : StartDrain(T)
    \/ SessionBegins
    \/ SessionEnds
    \/ DrainWait

IsDigit(c) == \E d \in 0..9 : Digit(d) = c

DigitValue(c) == CHOOSE d \in 0..9 : Digit(d) = c

\* atoi of the text from position i on, acc being the value read so far
RECURSIVE atoi_from(_, _, _)
atoi_from(s, i, acc) ==
    IF i > Len(s) \/ ~IsDigit(s[i]) THEN acc
    ELSE atoi_from(s, i + 1, acc * 10 + DigitValue(s[i]))

atoi(s) == atoi_from(s, 1, 0)

\* kill(pid, sig): 0 when the process exists, -1 (ESRCH) when it does not
kill(P, pid) == IF pid \in Pids /\ P[pid].alive THEN 0 ELSE -1

\* lines 414-429: the PID found in the file, 0 when there is none
read_pid(F) == IF F = <<>> THEN 0 ELSE atoi(F)

\* lines 432-438: snprintf(buf, sizeof(buf), "%d\n", getpid()) and write
write_pid(pid) == Append(decimal(pid), "\n")

\* reload_init called by process pid: the file it leaves and what it returns
reload_init(F, P, pid) ==
    IF read_pid(F) > 0 /\ kill(P, read_pid(F)) = 0
    THEN [file |-> F, ret |-> read_pid(F)]
    ELSE [file |-> write_pid(pid), ret |-> 0]

\* reload_signal_old called by process pid: the process it signals, 0 for
\* none
reload_signal_old(F, P, pid) ==
    IF F = <<>> THEN 0
    ELSE IF atoi(F) > 0 /\ atoi(F) # pid /\ kill(P, atoi(F)) = 0 THEN atoi(F)
    ELSE 0

PidInit ==
    /\ state = NoDrain
    /\ hr_wall = StartWall
    /\ drain_began = -1
    /\ pid_file \in {<<>>, <<"\n">>}
    /\ procs = [p \in Pids |-> NotStarted]

\* a process starts and calls reload_init
Startup(pid) ==
    /\ UNCHANGED notRs
    /\ procs[pid].pc = "new"
    /\ pid_file' = reload_init(pid_file, procs, pid).file
    /\ procs' = [procs EXCEPT ![pid] =
                    [alive |-> TRUE, pc |-> "inited",
                     old |-> reload_init(pid_file, procs, pid).ret,
                     sent |-> 0]]
    /\ UNCHANGED <<state, hr_wall, drain_began>>

\* a process that has started calls reload_signal_old
SignalOld(pid) ==
    /\ UNCHANGED notRs
    /\ procs[pid].pc = "inited"
    /\ procs[pid].alive
    /\ procs' = [procs EXCEPT
                    ![pid].pc = "signalled",
                    ![pid].sent = reload_signal_old(pid_file, procs, pid)]
    /\ UNCHANGED <<state, hr_wall, drain_began, pid_file>>

\* a process ends
Exit(pid) ==
    /\ UNCHANGED notRs
    /\ procs[pid].alive
    /\ procs' = [procs EXCEPT ![pid].alive = FALSE, ![pid].pc = "gone"]
    /\ UNCHANGED <<state, hr_wall, drain_began, pid_file>>

PidNext ==
    \/ \E pid \in Pids : Startup(pid)
    \/ \E pid \in Pids : SignalOld(pid)
    \/ \E pid \in Pids : Exit(pid)

(***************************************************************************)
(* The event loop of chapter 05 (event_loop_select.c, event_loop_epoll.c,  *)
(* event_loop_kqueue.c).  event_loop.h picks one backend at compile time.  *)
(* fd_data[fd] is <<>> for NULL and <<events>> for a registration whose    *)
(* interest mask is events; every caller passes a callback.  Descriptors   *)
(* come in pairs, the client and the backend side of one session.          *)
(***************************************************************************)
EvBackends == {"epoll", "kqueue", "select"}
EvFds == 1..MaxEvFds
Masks == SUBSET {"EVENT_READ", "EVENT_WRITE"}

peer(fd) == IF fd % 2 = 1 THEN fd + 1 ELSE fd - 1

\* select only: the highest registered descriptor below fd, -1 if none
max_fd_below(D, fd) ==
    IF \E i \in EvFds : i < fd /\ D[i] # <<>>
    THEN CHOOSE i \in EvFds :
            /\ i < fd /\ D[i] # <<>>
            /\ \A j \in EvFds : j < fd /\ D[j] # <<>> => j <= i
    ELSE -1

\* What the kernel holds for the loop (L.armed): per descriptor and
\* interest, whether the pointer it was armed with is still the
\* descriptor's event_data_t (live) or has been freed.  kqueue keeps one
\* filter per interest; an epoll entry is shown as one record per interest
\* bit; select keeps nothing in the kernel.
Filters == {"EVFILT_READ", "EVFILT_WRITE"}

Interests(backend, events) ==
    IF backend = "select" THEN {}
    ELSE (IF "EVENT_READ" \in events THEN {"EVFILT_READ"} ELSE {})
         \cup (IF "EVENT_WRITE" \in events THEN {"EVFILT_WRITE"} ELSE {})

Arm(backend, fd, events) ==
    {[fd |-> fd, filter |-> f, live |-> TRUE] : f \in Interests(backend, events)}

\* kevent with EV_ADD per interest of events: a filter that is there
\* already gets the new pointer, a filter that is not named stays as it is,
\* with the pointer that event_loop_add has just freed
kqueue_add(armed, fd, events) ==
    {e \in armed : e.fd # fd}
    \cup {[e EXCEPT !.live = FALSE] :
            e \in {x \in armed : x.fd = fd
                                  /\ x.filter \notin Interests("kqueue", events)}}
    \cup Arm("kqueue", fd, events)

\* epoll_ctl EPOLL_CTL_ADD and, on EEXIST, EPOLL_CTL_MOD: the entry of
\* the descriptor is replaced
epoll_add(armed, fd, events) ==
    {e \in armed : e.fd # fd} \cup Arm("epoll", fd, events)

ev_add(L, fd, events) ==
    [L EXCEPT !.fd_data[fd] = <<events>>,
              !.max_fd = IF L.backend = "select" /\ fd > @ THEN fd ELSE @,
              !.armed = CASE L.backend = "kqueue" -> kqueue_add(@, fd, events)
                          [] L.backend = "epoll" -> epoll_add(@, fd, events)
                          [] OTHER -> @]

\* kqueue: EV_DELETE for the interests of data->events; epoll:
\* EPOLL_CTL_DEL
armed_del(L, fd) ==
    CASE L.backend = "kqueue" /\ L.fd_data[fd] # <<>> ->
            {e \in L.armed :
                e.fd # fd \/ e.filter \notin Interests("kqueue", L.fd_data[fd][1])}
      [] L.backend = "kqueue" -> L.armed
      [] OTHER -> {e \in L.armed : e.fd # fd}

ev_del(L, fd) ==
    IF fd \notin EvFds THEN L
    ELSE [L EXCEPT
            !.fd_data[fd] = <<>>,
            !.armed = {[e EXCEPT !.live = e.live /\ e.fd # fd] :
                          e \in armed_del(L, fd)},
            !.max_fd = IF L.backend = "select" /\ fd = @
                       THEN max_fd_below(L.fd_data, fd) ELSE @]

\* high_perf_lb.c on_client_event, on_backend_event: the callback relays,
\* or ends the session and free_connection removes both of its descriptors
session_callback(L, fd, ends) ==
    IF fd \in ends THEN ev_del(ev_del(L, fd), peer(fd)) ELSE L

\* what the dispatch loops carry: the loop, the callbacks run so far, and
\* whether an entry was met whose registration was gone
Pass(L, n, gone) == [loop |-> L, processed |-> n, gone |-> gone]

\* select(): per descriptor the conditions found ready.  A descriptor is in
\* read_fds and write_fds by its mask, and always in error_fds.
Conditions == {"read", "write", "error"}

Asked(D, fd) ==
    IF D[fd] = <<>> THEN {}
    ELSE {"error"}
         \cup (IF "EVENT_READ" \in D[fd][1] THEN {"read"} ELSE {})
         \cup (IF "EVENT_WRITE" \in D[fd][1] THEN {"write"} ELSE {})

SelectResults(D) ==
    {r \in [EvFds -> SUBSET Conditions] : \A fd \in EvFds : r[fd] \subseteq Asked(D, fd)}

RECURSIVE Bits(_, _)
Bits(r, fd) ==
    IF fd \notin DOMAIN r THEN 0 ELSE Cardinality(r[fd]) + Bits(r, fd + 1)

RECURSIVE select_dispatch(_, _, _, _, _)
select_dispatch(P, r, ready, ends, fd) ==
    IF fd > P.loop.max_fd \/ P.processed >= ready THEN P
    ELSE IF P.loop.fd_data[fd] = <<>>
    THEN select_dispatch(Pass(P.loop, P.processed, P.gone \/ r[fd] # {}),
                         r, ready, ends, fd + 1)
    ELSE IF r[fd] # {}
    THEN select_dispatch(Pass(session_callback(P.loop, fd, ends), P.processed + 1, P.gone),
                         r, ready, ends, fd + 1)
    ELSE select_dispatch(P, r, ready, ends, fd + 1)

\* what event_loop_run leaves: the loop, the value returned, the callbacks
\* it ran, and the two cases met
Ran5(P, ret, several) ==
    [loop |-> P.loop, ret |-> ret, dispatched |-> P.processed,
     several |-> several, gone |-> P.gone]

event_loop_run_select(L, wait, r, ends) ==
    IF L.max_fd < 0 THEN Ran5(Pass(L, 0, FALSE), 0, FALSE)
    ELSE IF wait = "EINTR" THEN Ran5(Pass(L, 0, FALSE), 0, FALSE)
    ELSE IF wait # "ok" THEN Ran5(Pass(L, 0, FALSE), -1, FALSE)
    ELSE Ran5(select_dispatch(Pass(L, 0, FALSE), r, Bits(r, 1), ends, 1),
              Bits(r, 1),
              \E fd \in EvFds : Cardinality(r[fd]) > 1)

\* epoll_wait(): one entry per ready descriptor, its conditions in one mask;
\* kevent(): one entry per ready descriptor and filter.  data.ptr and udata
\* are the registration the entry was armed with.
EpollFlags == {"EPOLLIN", "EPOLLOUT", "EPOLLERR", "EPOLLHUP"}

EpollAsked(D, fd) ==
    IF D[fd] = <<>> THEN {}
    ELSE {"EPOLLERR", "EPOLLHUP"}
         \cup (IF "EVENT_READ" \in D[fd][1] THEN {"EPOLLIN"} ELSE {})
         \cup (IF "EVENT_WRITE" \in D[fd][1] THEN {"EPOLLOUT"} ELSE {})

EpollEntries(D) ==
    {e \in [fd : EvFds, events : SUBSET EpollFlags] :
        e.events # {} /\ e.events \subseteq EpollAsked(D, e.fd)}

\* kevent() reports filters that are armed
KqueueEntries(L) == L.armed

\* the kernel reports an entry once
Reports(E) ==
    {b \in SeqsUpTo(E, MaxEvents) :
        \A i, j \in DOMAIN b :
            i # j => b[i] # b[j] /\ (b[i].fd = b[j].fd => "filter" \in DOMAIN b[i])}

\* Both loops call through the pointer of the entry.  When an earlier
\* callback of the same batch removed the descriptor, the pointer is to
\* freed memory: the callback runs on it (stale) or the block reads as zero
\* and the entry is skipped.
RECURSIVE ptr_dispatch(_, _, _, _, _)
ptr_dispatch(P, b, ends, stale, i) ==
    IF i > Len(b) THEN P
    ELSE IF P.loop.fd_data[b[i].fd] = <<>>
            \/ ("live" \in DOMAIN b[i] /\ ~b[i].live)
    THEN ptr_dispatch(Pass(P.loop,
                           IF stale THEN P.processed + 1 ELSE P.processed,
                           TRUE),
                      b, ends, stale, i + 1)
    ELSE ptr_dispatch(Pass(session_callback(P.loop, b[i].fd, ends), P.processed + 1, P.gone),
                      b, ends, stale, i + 1)

event_loop_run_epoll(L, wait, b, ends, stale) ==
    IF wait = "EINTR" THEN Ran5(Pass(L, 0, FALSE), 0, FALSE)
    ELSE IF wait # "ok" THEN Ran5(Pass(L, 0, FALSE), -1, FALSE)
    ELSE Ran5(ptr_dispatch(Pass(L, 0, FALSE), b, ends, stale, 1),
              Len(b),
              \E i \in DOMAIN b : Cardinality(b[i].events) > 1)

event_loop_run_kqueue(L, wait, b, ends, stale) ==
    IF wait = "EINTR" THEN Ran5(Pass(L, 0, FALSE), 0, FALSE)
    ELSE IF wait # "ok" THEN Ran5(Pass(L, 0, FALSE), -1, FALSE)
    ELSE Ran5(ptr_dispatch(Pass(L, 0, FALSE), b, ends, stale, 1),
              Len(b),
              \E i, j \in DOMAIN b : i # j /\ b[i].fd = b[j].fd)

WaitResults == {"ok", "EINTR", "EBADF"}

NotRun == [ran |-> FALSE, wait |-> "ok", ret |-> 0, dispatched |-> 0,
           several |-> FALSE, gone |-> FALSE]

NoSession ==
    [live |-> FALSE, request_forwarded |-> 0, reads |-> 0,
     from_client |-> <<>>, to_backend |-> <<>>,
     from_backend |-> <<>>, to_client |-> <<>>]

EvLoops ==
    {[backend |-> be, fd_data |-> [fd \in EvFds |-> <<>>], max_fd |-> -1,
      armed |-> {}] :
        be \in EvBackends}

EvQuiet ==
    /\ ev_loop = [backend |-> "epoll", fd_data |-> [fd \in EvFds |-> <<>>],
                  max_fd |-> -1, armed |-> {}]
    /\ ev_last = NotRun

EvInit ==
    /\ ev_loop \in EvLoops
    /\ ev_last = NotRun

EventLoopAdd(fd, events) ==
    /\ UNCHANGED notIo
    /\ ev_loop' = ev_add(ev_loop, fd, events)
    /\ UNCHANGED <<ev_last, relay>>

EventLoopDel(fd) ==
    /\ UNCHANGED notIo
    /\ ev_loop.fd_data[fd] # <<>>
    /\ ev_loop' = ev_del(ev_loop, fd)
    /\ UNCHANGED <<ev_last, relay>>

Returned(R, wait) ==
    /\ ev_loop' = R.loop
    /\ ev_last' = [ran |-> TRUE, wait |-> wait, ret |-> R.ret,
                   dispatched |-> R.dispatched, several |-> R.several,
                   gone |-> R.gone]
    /\ UNCHANGED relay

RunSelect(wait, r, ends) ==
    /\ UNCHANGED notIo
    /\ ev_loop.backend = "select"
    /\ Returned(event_loop_run_select(ev_loop, wait, r, ends), wait)

RunEpoll(wait, b, ends, stale) ==
    /\ UNCHANGED notIo
    /\ ev_loop.backend = "epoll"
    /\ Returned(event_loop_run_epoll(ev_loop, wait, b, ends, stale), wait)

RunKqueue(wait, b, ends, stale) ==
    /\ UNCHANGED notIo
    /\ ev_loop.backend = "kqueue"
    /\ Returned(event_loop_run_kqueue(ev_loop, wait, b, ends, stale), wait)

EvNext ==
    \/ \E fd \in EvFds, events \in Masks \ {{}} : EventLoopAdd(fd, events)
    \/ \E fd \in EvFds : EventLoopDel(fd)
    \/ \E wait \in WaitResults, r \in SelectResults(ev_loop.fd_data),
          ends \in SUBSET EvFds :
            RunSelect(wait, r, ends)
    \/ \E wait \in WaitResults,
          b \in Reports(EpollEntries(ev_loop.fd_data)),
          ends \in SUBSET EvFds, stale \in BOOLEAN :
            RunEpoll(wait, b, ends, stale)
    \/ \E wait \in WaitResults,
          b \in Reports(KqueueEntries(ev_loop)),
          ends \in SUBSET EvFds, stale \in BOOLEAN :
            RunKqueue(wait, b, ends, stale)

(***************************************************************************)
(* The relay of pooled_lb.c: on_client_event and on_backend_event.  Both   *)
(* descriptors are non-blocking.  A byte is "a", NUL, or CRLF, which stands *)
(* for the pair \r\n; XFF stands for the two header lines inject_headers    *)
(* adds, and is one byte long here.                                        *)
(***************************************************************************)
Bytes == {"a", "CRLF", "NUL"}
XFF == "XFF"

Chunks(n) == UNION {[1..k -> Bytes] : k \in 1..n}

\* strlen: the bytes before the first NUL
strlen(s) ==
    IF \E i \in DOMAIN s : s[i] = "NUL"
    THEN (CHOOSE i \in DOMAIN s : s[i] = "NUL" /\ \A j \in 1..(i - 1) : s[j] # "NUL") - 1
    ELSE Len(s)

\* strstr(request, "\r\n"): the index of the first CRLF of the string, 0 if none
strstr_crlf(s) ==
    IF \E i \in 1..strlen(s) : s[i] = "CRLF"
    THEN CHOOSE i \in 1..strlen(s) : s[i] = "CRLF" /\ \A j \in 1..(i - 1) : s[j] # "CRLF"
    ELSE 0

\* The buffer holds the bytes read and the NUL the caller puts behind them.
\* The headers go in behind the first line when they fit; memmove shifts
\* the rest of the string and its terminator.
inject_headers(request, max_size) ==
    IF strstr_crlf(request) = 0 THEN request
    ELSE IF strlen(request) + 1 < max_size
    THEN SubSeq(request, 1, strstr_crlf(request)) \o <<XFF>>
         \o SubSeq(request, strstr_crlf(request) + 1, strlen(request)) \o <<"NUL">>
    ELSE request

\* write() on a non-blocking socket: the socket takes the first accepted
\* bytes, none when the call fails with EAGAIN (accepted = -1)
write(stream, buffer, n, accepted) ==
    stream \o SubSeq(buffer, 1, IF accepted < n THEN accepted ELSE n)

Accepts(n) == {-1} \cup 1..n

\* on_client_event, EVENT_READ with n > 0: data is what read() returned
client_buffer(S, data) ==
    IF S.request_forwarded = 0
    THEN inject_headers(data \o <<"NUL">>, BUFFER_SIZE)
    ELSE data \o <<"NUL">>

client_n(S, data) ==
    IF S.request_forwarded = 0 THEN strlen(client_buffer(S, data)) ELSE Len(data)

relay_from_client(S, data, accepted) ==
    [S EXCEPT !.request_forwarded = 1,
              !.reads = @ + 1,
              !.from_client = @ \o data,
              !.to_backend = write(@, client_buffer(S, data), client_n(S, data),
                                   accepted)]

relay_from_backend(S, data, accepted) ==
    [S EXCEPT !.reads = @ + 1,
              !.from_backend = @ \o data,
              !.to_client = write(@, data, Len(data), accepted)]

RelayQuiet == relay = NoSession

\* the health fields after parse_backend, nothing probed yet
HcStart ==
    [backends |-> [i \in 0..(LbBackends - 1) |->
                      [is_healthy |-> TRUE, last_health_check |-> 0]],
     reach |-> [i \in 0..(LbBackends - 1) |-> "up"],
     wall |-> HEALTH_CHECK_INTERVAL,
     probe_at |-> [i \in 0..(LbBackends - 1) |-> -1],
     gap |-> [i \in 0..(LbBackends - 1) |-> -1],
     result |-> [i \in 0..(LbBackends - 1) |-> TRUE],
     round |-> {}, now |-> 0, phase |-> "health"]

HcQuiet == hc = HcStart

IoQuiet == EvQuiet /\ RelayQuiet /\ HcQuiet

RelayInit == relay = [NoSession EXCEPT !.live = TRUE]

OnClientEvent(data, accepted) ==
    /\ UNCHANGED <<notIo, evVars>>
    /\ relay.live /\ relay.reads < MaxRelayReads
    /\ accepted \in Accepts(client_n(relay, data))
    /\ relay' = relay_from_client(relay, data, accepted)

OnBackendEvent(data, accepted) ==
    /\ UNCHANGED <<notIo, evVars>>
    /\ relay.live /\ relay.reads < MaxRelayReads
    /\ accepted \in Accepts(Len(data))
    /\ relay' = relay_from_backend(relay, data, accepted)

\* EVENT_ERROR, EVENT_HUP or read() <= 0 on either side: free_connection
RelayEnds ==
    /\ UNCHANGED <<notIo, evVars>>
    /\ relay.live
    /\ relay' = [relay EXCEPT !.live = FALSE]

RelayNext ==
    \/ \E data \in Chunks(BUFFER_SIZE - 1), accepted \in -1..BUFFER_SIZE :
            OnClientEvent(data, accepted)
    \/ \E data \in Chunks(BUFFER_SIZE), accepted \in -1..BUFFER_SIZE :
            OnBackendEvent(data, accepted)
    \/ RelayEnds

(***************************************************************************)
(* Round robin on its own: select_round_robin of pooled_lb.c and           *)
(* select_backend of chapter 03 (load_balancer.c), on a roster whose       *)
(* health flags change between selections.                                 *)
(***************************************************************************)
\* load_balancer.c select_backend: as select_round_robin, but the index is
\* stored in the fall-back too, and an empty roster gives NULL
lb3_select_backend(bs, n, cur) ==
    IF n = 0 THEN [backends |-> bs, current_index |-> cur, pick |-> -1]
    ELSE IF rr_loop(bs, n, cur, 0).found
    THEN [backends |-> bs,
          current_index |-> rr_loop(bs, n, cur, 0).current_index,
          pick |-> rr_loop(bs, n, cur, 0).current_index]
    ELSE [backends |-> bs, current_index |-> (cur + 1) % n,
          pick |-> (cur + 1) % n]

RrInit ==
    /\ \E h \in [Roster -> BOOLEAN] :
          backends = [i \in Roster |-> [NewBackend(1) EXCEPT !.is_healthy = h[i]]]
    /\ current_index = -1
    /\ picks = <<>>
    /\ hist = [ip \in ClientIps |-> -1]
    /\ nsel = 0

RrSelect == Select("ALG_ROUND_ROBIN", Ip_10_0_0_2)

RrSelect3 ==
    /\ UNCHANGED notSel
    /\ nsel < MaxSelects
    /\ nsel' = nsel + 1
    /\ backends' = lb3_select_backend(backends, NumBackends, current_index).backends
    /\ current_index' =
          lb3_select_backend(backends, NumBackends, current_index).current_index
    /\ picks' = <<lb3_select_backend(backends, NumBackends, current_index).pick>>
    /\ UNCHANGED hist

RrNext ==
    \/ RrSelect
    \/ RrSelect3
    \/ \E i \in Roster, v \in BOOLEAN : SetHealth(i, v)

(***************************************************************************)
(* Least connections: selections on a roster whose sessions open and       *)
(* close and whose health flags change between selections.                 *)
(***************************************************************************)
LcWeights == {1, MaxWeight}

RECURSIVE SumActive(_, _)
SumActive(bs, S) ==
    IF S = {} THEN 0
    ELSE LET i == CHOOSE x \in S : TRUE
         IN bs[i].active_connections + SumActive(bs, S \ {i})

LcInit ==
    /\ \E w \in [Roster -> LcWeights], h \in [Roster -> BOOLEAN] :
          backends = [i \in Roster |->
                         [NewBackend(w[i]) EXCEPT !.is_healthy = h[i]]]
    /\ current_index = -1
    /\ picks = <<>>
    /\ hist = [ip \in ClientIps |-> -1]
    /\ nsel = 0

\* select_backend under -a leastconn; the caller's bookkeeping is in
\* LcConnected
LcSelect ==
    /\ UNCHANGED notSel
    /\ backends' =
          select_least_connections(backends, NumBackends, current_index).backends
    /\ current_index' =
          select_least_connections(backends, NumBackends, current_index)
             .current_index
    /\ picks' =
          <<select_least_connections(backends, NumBackends, current_index).pick>>
    /\ UNCHANGED <<hist, nsel>>

\* on_server_event after the backend connection is made:
\* backend->active_connections++
LcConnected ==
    /\ UNCHANGED notSel
    /\ picks # <<>>
    /\ SumActive(backends, Roster) < MaxLcConns
    /\ backends' = [backends EXCEPT ![picks[1]].active_connections = @ + 1]
    /\ picks' = <<>>
    /\ UNCHANGED <<current_index, hist, nsel>>

\* free_connection of a session of backend i: active_connections--
LcFreed(i) ==
    /\ UNCHANGED notSel
    /\ backends[i].active_connections > 0
    /\ backends' = [backends EXCEPT ![i].active_connections = @ - 1]
    /\ UNCHANGED <<current_index, picks, hist, nsel>>

LcNext ==
    \/ LcSelect
    \/ LcConnected
    \/ \E i \in Roster : LcFreed(i)
    \/ \E i \in Roster, v \in BOOLEAN : SetHealth(i, v)

(***************************************************************************)
(* Health supervision by the clock: main's loop of pooled_lb.c calls       *)
(* health_check_all and then event_loop_run with a wait of one second.     *)
(* hc.wall is the wall clock in seconds; a probe of a backend that does    *)
(* not answer lasts the two seconds of its select.                         *)
(***************************************************************************)
PROBE_TIMEOUT == 2
LOOP_WAIT == 1

HcRoster == 0..(LbBackends - 1)

\* up: connect succeeds; refuses: connect fails at once; silent: nothing
\* comes back
Reaches == {"up", "refuses", "silent"}

\* check_backend_health: what it returns and how long it takes
check_backend_health(reach) ==
    CASE reach = "up"      -> [connected |-> TRUE, took |-> 0]
      [] reach = "refuses" -> [connected |-> FALSE, took |-> 0]
      [] OTHER             -> [connected |-> FALSE, took |-> PROBE_TIMEOUT]

\* one backend is probed: it is stamped with the time the pass began
hc_probe(H, i, nw) ==
    [H EXCEPT
       !.backends[i] =
          [is_healthy |-> check_backend_health(H.reach[i]).connected,
           last_health_check |-> nw],
       !.result[i] = check_backend_health(H.reach[i]).connected,
       !.gap[i] = IF H.probe_at[i] = -1 THEN -1 ELSE H.wall - H.probe_at[i],
       !.probe_at[i] = H.wall,
       !.round = @ \cup {i},
       !.wall = @ + check_backend_health(H.reach[i]).took]

\* health_check_all: the loop over the roster, now read once before it
RECURSIVE hc_from(_, _, _)
hc_from(H, i, nw) ==
    IF i >= LbBackends THEN H
    ELSE IF nw - H.backends[i].last_health_check < HEALTH_CHECK_INTERVAL
    THEN hc_from(H, i + 1, nw)
    ELSE hc_from(hc_probe(H, i, nw), i + 1, nw)

HcInit == \E r \in [HcRoster -> Reaches] : hc = [HcStart EXCEPT !.reach = r]

HcHealthCheckAll ==
    /\ UNCHANGED notHc
    /\ hc.phase = "health"
    /\ hc.wall <= HEALTH_CHECK_INTERVAL + MaxHcWall
    /\ hc' = [hc_from([hc EXCEPT !.round = {}, !.now = hc.wall], 0, hc.wall)
                EXCEPT !.phase = "wait"]

\* event_loop_run(lb.event_loop, 1000): it returns at once or after the
\* wait; a callback whose get_backend_connection failed has marked its
\* backend (down is that backend, -1 for none)
HcEventLoopRun(took, down) ==
    /\ UNCHANGED notHc
    /\ hc.phase = "wait"
    /\ down # -1 => hc.reach[down] # "up"
    /\ hc' = [hc EXCEPT
                !.phase = "health",
                !.wall = @ + took,
                !.backends =
                   [i \in HcRoster |->
                       IF i = down THEN [@[i] EXCEPT !.is_healthy = FALSE]
                       ELSE @[i]]]

\* a backend comes up, starts refusing or stops answering
HcReach(i, r) ==
    /\ UNCHANGED notHc
    /\ hc.reach[i] # r
    /\ hc' = [hc EXCEPT !.reach[i] = r]

HcNext ==
    \/ HcHealthCheckAll
    \/ \E took \in {0, LOOP_WAIT}, down \in HcRoster \cup {-1} :
          HcEventLoopRun(took, down)
    \/ \E i \in HcRoster, r \in Reaches : HcReach(i, r)

(***************************************************************************)
(* The sliding window on its own: one key, windows of one second and of    *)
(* SwWindow seconds, the wall clock moving on in whole seconds.            *)
(***************************************************************************)
SwInit ==
    /\ \E r \in {1, ONE}, w \in {1, SwWindow} :
          limiter = rate_limiter_create("RATE_SLIDING_WINDOW", r, w * ONE)
    /\ wall = StartWall
    /\ rl_last = NoCall
    /\ calls = 0
    /\ waits = 0
    /\ admits = 0
    /\ used = [k \in Keys |-> -1]
    /\ rl_trace = <<>>

SwAllow ==
    /\ AllowStep(Key_ab, TRUE, MaxSwCalls)
    /\ UNCHANGED rl_trace

\* the wall clock moves on by sec seconds between two calls
SwWait(sec) ==
    /\ UNCHANGED notRl
    /\ time(wall) + sec <= time(StartWall) + MaxSwWall
    /\ wall' = wall + sec * 1000
    /\ admits' = 0
    /\ UNCHANGED <<limiter, rl_last, calls, waits, used, rl_trace>>

SwNext ==
    \/ SwAllow
    \/ \E sec \in 1..(2 * SwWindow) : SwWait(sec)

\* keys of any length: a short key and one that does not fit RateEntry.key
KeyInit ==
    /\ \E a \in RateAlgorithms :
          limiter = rate_limiter_create(a, ONE, ONE)
    /\ wall = StartWall
    /\ rl_last = NoCall
    /\ calls = 0
    /\ waits = 0
    /\ admits = 0
    /\ used = [k \in Keys |-> -1]
    /\ rl_trace = <<>>

KeyAllow(key) ==
    /\ AllowStep(key, TRUE, MaxKeyCalls)
    /\ UNCHANGED rl_trace

KeyNext ==
    \/ \E key \in {Key_ab, Key_long} : KeyAllow(key)
    \/ RlCleanup
    \/ \E ms \in {ShortWait, LongWait} : RlWait(ms)

(***************************************************************************)
(* Specifications.                                                         *)
(***************************************************************************)
PoolQuiet == PoolInit

vars == <<poolVars, selVars, lbVars, rlVars, cfgVars, rsVars, ioVars, hcVars>>

PoolSpecInit == PoolInit /\ SelQuiet /\ LbQuiet /\ RlQuiet /\ CfgQuiet /\ DrainQuiet /\ IoQuiet

SpecPool == PoolSpecInit /\ [][PoolNext]_vars

SpecPoolMT == PoolSpecInit /\ [][PoolNextMT]_vars

WrrSpecInit == WrrInit /\ PoolQuiet /\ LbQuiet /\ RlQuiet /\ CfgQuiet /\ DrainQuiet /\ IoQuiet

WrrNext == WrrSelect

SpecWRR == WrrSpecInit /\ [][WrrNext]_vars

IpHashSpecInit == SelQuiet /\ PoolQuiet /\ LbQuiet /\ RlQuiet /\ CfgQuiet /\ DrainQuiet /\ IoQuiet

SpecIpHash == IpHashSpecInit /\ [][IpHashNext]_vars

RrSpecInit ==
    RrInit /\ PoolQuiet /\ LbQuiet /\ RlQuiet /\ CfgQuiet /\ DrainQuiet /\ IoQuiet

SpecRR == RrSpecInit /\ [][RrNext]_vars

LcSpecInit ==
    LcInit /\ PoolQuiet /\ LbQuiet /\ RlQuiet /\ CfgQuiet /\ DrainQuiet /\ IoQuiet

SpecLC == LcSpecInit /\ [][LcNext]_vars

LbSpecInit ==
    /\ LbInit
    /\ thr = [t \in Threads |-> IdleThread]
    /\ leases = EmptyBag
    /\ gets = 0
    /\ picks = <<>>
    /\ hist = [ip \in ClientIps |-> -1]
    /\ nsel = 0
    /\ RlQuiet
    /\ CfgQuiet /\ DrainQuiet /\ IoQuiet

SpecLB == LbSpecInit /\ [][LbNext]_vars

RlSpecInit == RlInit /\ PoolQuiet /\ SelQuiet /\ LbQuiet /\ CfgQuiet /\ DrainQuiet /\ IoQuiet

SpecRL == RlSpecInit /\ [][RlNext]_vars

KeySpecInit == KeyInit /\ PoolQuiet /\ SelQuiet /\ LbQuiet /\ CfgQuiet /\ DrainQuiet /\ IoQuiet

SpecKey == KeySpecInit /\ [][KeyNext]_vars

BurstSpecInit == BurstInit /\ PoolQuiet /\ SelQuiet /\ LbQuiet /\ CfgQuiet /\ DrainQuiet /\ IoQuiet

LruSpecInit == PoolInit /\ SelQuiet /\ LbQuiet /\ RlQuiet /\ CfgQuiet /\ DrainQuiet /\ IoQuiet

SpecLru == LruSpecInit /\ [][LruNext]_vars

ReuseSpecInit == ReuseInit /\ SelQuiet /\ LbQuiet /\ RlQuiet /\ CfgQuiet /\ DrainQuiet /\ IoQuiet

SpecReuse == ReuseSpecInit /\ [][ReuseNext]_vars

SpecBurst == BurstSpecInit /\ [][BurstNext]_vars

SwSpecInit == SwInit /\ PoolQuiet /\ SelQuiet /\ LbQuiet /\ CfgQuiet /\ DrainQuiet /\ IoQuiet

SpecSW == SwSpecInit /\ [][SwNext]_vars

QuietButCfg ==
    PoolQuiet /\ SelQuiet /\ LbQuiet /\ RlQuiet /\ DrainQuiet /\ IoQuiet

QuietButRs ==
    PoolQuiet /\ SelQuiet /\ LbQuiet /\ RlQuiet /\ CfgQuiet /\ IoQuiet

QuietButIo ==
    PoolQuiet /\ SelQuiet /\ LbQuiet /\ RlQuiet /\ CfgQuiet /\ DrainQuiet
    /\ HcQuiet

HcSpecInit ==
    /\ HcInit /\ EvQuiet /\ RelayQuiet
    /\ PoolQuiet /\ SelQuiet /\ LbQuiet /\ RlQuiet /\ CfgQuiet /\ DrainQuiet

SpecHc == HcSpecInit /\ [][HcNext]_vars

DrainSpecInit == DrainInit /\ QuietButRs

SpecDrain == DrainSpecInit /\ [][DrainNext]_vars

PidSpecInit == PidInit /\ QuietButRs

SpecPid == PidSpecInit /\ [][PidNext]_vars

ReloadSpecInit == ReloadInit /\ QuietButCfg

SpecReload == ReloadSpecInit /\ [][ReloadNext]_vars

\* the loop of main keeps turning (sleep(1) returns)
SpecReloadLive ==
    ReloadSpecInit /\ [][ReloadNext]_vars /\ WF_vars(MainLoop)

EvSpecInit == EvInit /\ RelayQuiet /\ QuietButIo

SpecEv == EvSpecInit /\ [][EvNext]_vars

RelaySpecInit == RelayInit /\ EvQuiet /\ QuietButIo

SpecRelay == RelaySpecInit /\ [][RelayNext]_vars

(***************************************************************************)
(* Claims about the connection pool.                                       *)
(***************************************************************************)
LeasesOf(fd) == {l \in BagToSet(leases) : l.fd = fd}

RECURSIVE CopiesOf(_)
CopiesOf(S) ==
    IF S = {} THEN 0
    ELSE LET l == CHOOSE x \in S : TRUE
         IN CopiesIn(l, leases) + CopiesOf(S \ {l})

\* C1: an fd leased to a caller is never closed by the pool and never
\* handed to a second caller while the first lease is outstanding.
C1_LeasedFdExclusive ==
    \A l \in BagToSet(leases) :
        /\ l.fd \in open
        /\ CopiesOf(LeasesOf(l.fd)) = 1

C3_SizeWithinMax ==
    pool.current_size <= pool.max_size

InFlight(t) == thr[t].pc \in {"dial", "install"} /\ thr[t].slot # NULL

\* C4: two interleaved conn_pool_get calls never install into the same
\* slot, and every leased fd that was recorded in the pool is found in
\* exactly one slot.
C4_NoSharedSlot ==
    /\ \A t1, t2 \in Threads :
          (t1 # t2 /\ InFlight(t1) /\ InFlight(t2))
              => thr[t1].slot # thr[t2].slot
    /\ \A l \in BagToSet(leases) :
          l.pooled =>
              Cardinality({i \in 1..pool.max_size :
                              pool.connections[i].fd = l.fd}) = 1

(***************************************************************************)
(* Claims about the selection policies.                                    *)
(***************************************************************************)
CountIn(seq, i, k) == Cardinality({j \in 1..k : seq[j] = i})

\* C8: smooth weighted round-robin from current_weight 0 on a fixed
\* healthy set S picks each backend i of S exactly weight(i) times in the
\* first sum-of-weights selections, picks nothing outside S, and repeats
\* with that period (every current_weight is 0 again at each period's end).
C8_WrrProportional ==
    LET S == HealthySet(backends)
        W == SumWeights(backends, S)
    IN S # {} =>
         /\ Len(picks) >= W =>
               \A i \in Roster :
                   CountIn(picks, i, W) = IF i \in S THEN backends[i].weight ELSE 0
         /\ \A k \in 1..Len(picks) : k > W => picks[k] = picks[k - W]
         /\ Len(picks) % W = 0 =>
               \A i \in Roster : backends[i].current_weight = 0

\* two whole periods on a roster of unequal weights with one backend down
C8_Witness ==
    /\ HealthySet(backends) = Roster \ {1}
    /\ backends[0].weight = 3
    /\ backends[2].weight = 2
    /\ Len(picks) = 2 * 5

\* weights 3, 2, 1 on backends A, B, C (0, 1, 2), all healthy
Weights321(n) ==
    /\ Roster = 0..2
    /\ HealthySet(backends) = Roster
    /\ backends[0].weight = 3
    /\ backends[1].weight = 2
    /\ backends[2].weight = 1
    /\ Len(picks) >= n

\* C9 as stated: the first six selections are A, A, B, A, B, C.
C9_FirstSixAABABC ==
    Weights321(6) => SubSeq(picks, 1, 6) = <<0, 0, 1, 0, 1, 2>>

\* C9 as amended: with weights 3, 2, 1 and every current_weight 0 at the
\* start, the first six selections are A, B, A, C, B, A.
C9_FirstSixABACBA ==
    Weights321(6) => SubSeq(picks, 1, 6) = <<0, 1, 0, 2, 1, 0>>

C9_Witness == Weights321(6)

Dist(start, p, n) == (p - start + n) % n

\* the first healthy backend scanning forward modulo n from start; start
\* itself when none is healthy
FirstHealthyFrom(bs, n, start) ==
    IF HealthySet(bs) = {} THEN start
    ELSE CHOOSE p \in HealthySet(bs) :
             \A q \in HealthySet(bs) : Dist(start, p, n) <= Dist(start, q, n)

\* C10: while the health flags are unchanged every select_ip_hash call of
\* one client IP returns the same backend: the first healthy one scanning
\* forward modulo n from hash mod n (the hash of 203.0.113.7 is
\* 1392238757 = 21243 * 2^16 + 57509).
C10_IpHashSticky ==
    /\ ip_hash(Ip_203_0_113_7) = [hi |-> 21243, lo |-> 57509]
    /\ \A ip \in ClientIps :
          hist[ip] # -1 =>
              hist[ip] = FirstHealthyFrom(backends, NumBackends,
                                          hash_mod(ip_hash(ip), NumBackends))

\* a client whose own backend is down has been sent to the alternate
C10_Witness ==
    LET start == hash_mod(ip_hash(Ip_203_0_113_7), NumBackends) IN
    /\ ~backends[start].is_healthy
    /\ hist[Ip_203_0_113_7] \notin {-1, start}
    /\ current_index # -1

(***************************************************************************)
(* Claims about the sessions of the pooled load balancer.                  *)
(***************************************************************************)
\* C5: when a session whose keep_alive flag is set ends on a clean client
\* EOF, its backend fd goes back through conn_pool_return and, if still
\* alive, is then an idle entry of the pool; conn_pool_close takes a
\* backend fd only after an error on either side or with keep_alive clear.
C5_CleanEofReturnsToPool ==
    /\ (last.cause = "client_eof" /\ last.keep_alive /\ last.fd >= 0) =>
          /\ last.via = "conn_pool_return"
          /\ last.alive => last.fate = "pooled"
    /\ last.via = "conn_pool_close" =>
          \/ last.cause \in {"client_error", "backend_error"}
          \/ ~last.keep_alive

\* the sessions in being: the slab entries that hold a client fd
Live == {c \in Conns : connections[c].client_fd >= 0}

\* who holds the open descriptor fd: sessions as their client or backend
\* fd, and the pool as an idle entry
Owners(fd) ==
    {<<"client", c>> : c \in {x \in Live : connections[x].client_fd = fd}}
      \cup {<<"backend", c>> : c \in {x \in Live : connections[x].backend_fd = fd}}
      \cup {<<"pool", i>> : i \in {x \in 1..pool.max_size :
                                     /\ pool.connections[x].fd = fd
                                     /\ pool.connections[x].state = "FREE"}}

\* C6: every fd of a session is disposed of exactly once: no close() hits
\* a descriptor that is not open, every open descriptor has exactly one
\* owner, and the fds a live session holds are open.
C6_EachFdDisposedOnce ==
    /\ ~ebadf
    /\ \A fd \in open : Cardinality(Owners(fd)) = 1
    /\ \A c \in Live :
          /\ connections[c].client_fd \in open
          /\ connections[c].backend_fd >= 0 => connections[c].backend_fd \in open

\* C7: between callbacks, active_connections of every backend is the
\* number of sessions that refer to it, and is never negative.
C7_ActiveCountsSessions ==
    \A b \in DOMAIN backends :
        /\ backends[b].active_connections
              = Cardinality({c \in Conns : connections[c].backend = b})
        /\ backends[b].active_connections >= 0


InTtl == now <= pool.ttl_seconds

\* the requests made so far are all done
Released == leases = EmptyBag

\* C19 as stated: after 1000 sequential keep-alive requests to one live
\* backend, pool size 8, TTL 60, max-requests 1000, hits >= 990 and
\* current_size = 1.
C19_Reuse1000 ==
    gets = 1000 /\ Released /\ InTtl =>
        pool.pool_hits >= 990 /\ pool.current_size = 1

\* C19, amended: within TTL and budget only the first lease is a miss and
\* every later one a hit on the same fd, and one connection is pooled until
\* the return of the lease that uses up the budget, which closes it: after
\* 1000 requests hits = 999 and current_size = 0.
C19_ReuseUntilBudget ==
    InTtl /\ 1 <= gets /\ gets <= pool.max_requests_per_conn =>
        /\ pool.pool_misses = 1
        /\ pool.pool_hits = gets - 1
        /\ open \subseteq {1}
        /\ \A l \in BagToSet(leases) : l.fd = 1
        /\ pool.current_size =
              IF gets = pool.max_requests_per_conn /\ Released THEN 0 ELSE 1

\* the 1000 requests are done, within the TTL
C19_Witness ==
    /\ gets = 1000 /\ Released /\ InTtl
    /\ pool.pool_hits = 999
    /\ pool.current_size = 0

\* the pool is full of idle connections, one per backend, each on an open
\* descriptor of its own
FullOfFree ==
    /\ pool.current_size = pool.max_size
    /\ \A s \in 1..pool.max_size :
           /\ pool.connections[s].state = "FREE"
           /\ pool.connections[s].fd \in open
    /\ \A s, t \in 1..pool.max_size :
           s # t => /\ pool.connections[s].fd # pool.connections[t].fd
                    /\ pool.connections[s].host # pool.connections[t].host

PooledHosts == {pool.connections[s].host : s \in 1..pool.max_size}

\* no slot was used later than slot t
Oldest(t) ==
    \A s \in 1..pool.max_size :
        pool.connections[t].last_used <= pool.connections[s].last_used

\* what a slot holds, its list pointers left out
Held(c) ==
    [fd |-> c.fd, host |-> c.host, state |-> c.state, created |-> c.created,
     last_used |-> c.last_used, requests_served |-> c.requests_served]

\* lease l went to slot t and nothing else in the pool was touched
TookOver(t, l) ==
    /\ pool.connections[t].fd \notin open' \ {l.fd}
    /\ pool'.pool_evictions = pool.pool_evictions + 1
    /\ pool'.connections[t].fd = l.fd
    /\ pool'.connections[t].host = l.host
    /\ pool'.connections[t].state = "IN_USE"
    /\ pool'.lru_head = t
    /\ pool'.current_size <= pool.max_size
    /\ \A s \in 1..pool.max_size :
           s # t => /\ Held(pool'.connections[s]) = Held(pool.connections[s])
                    /\ pool.connections[s].fd \in open'

C20_EvictionStep ==
    FullOfFree /\ gets' = gets + 1 =>
        \A l \in BagToSet(leases') :
            l.host \notin PooledHosts =>
                \E t \in 1..pool.max_size :
                    /\ t = pool.lru_tail
                    /\ Oldest(t)
                    /\ TookOver(t, l)

\* C20: when the pool is full of idle connections, a get for a backend that
\* has none closes the fd of the least recently used one and leaves the
\* others as they are; the new connection takes the evicted slot, IN_USE and
\* at the LRU head, and current_size stays within max_size.
C20_LruEviction == [][C20_EvictionStep]_vars

\* a third backend holds a slot taken from one of two connections that were
\* idle since different seconds
C20_Witness ==
    /\ pool.pool_evictions > 0
    /\ pool.current_size = pool.max_size
    /\ \E l \in BagToSet(leases) :
           /\ l.host = MaxSize + 1
           /\ pool.connections[pool.lru_head].fd = l.fd
           /\ pool.connections[pool.lru_head].state = "IN_USE"
    /\ \E s \in 1..pool.max_size :
           /\ pool.connections[s].state = "FREE"
           /\ pool.connections[s].fd \in open
           /\ pool.connections[s].last_used > 0

(***************************************************************************)
(* Claims about the rate limiter.                                          *)
(***************************************************************************)
Has(L, key) == chain_find(L.buckets[hash_key(key)], key, 1) # NULL

EntryOf(L, key) ==
    L.buckets[hash_key(key)][chain_find(L.buckets[hash_key(key)], key, 1)]

Entries(L) == {EntryOf(L, k) : k \in {k \in Keys : Has(L, k)}}

\* the step is a rate_limiter_allow call that reached its key's entry
Decided == calls' = calls + 1 /\ rl_last'.path = "entry"

\* tokens of the called key once refilled and clamped: a key without an
\* entry starts full
Refilled ==
    IF Has(limiter, rl_last'.key)
    THEN LET e == EntryOf(limiter, rl_last'.key)
             sum == e.tokens + (time(wall) - e.last_update) * limiter.rate
         IN  IF sum > limiter.burst THEN limiter.burst ELSE sum
    ELSE limiter.burst

C11_TokensInRange ==
    \A e \in Entries(limiter) : 0 <= e.tokens /\ e.tokens <= limiter.burst

C11_AllowSpendsOne ==
    Decided /\ limiter.algorithm = "RATE_TOKEN_BUCKET" =>
        EntryOf(limiter', rl_last'.key).tokens =
            IF rl_last'.result = 1 THEN Refilled - ONE ELSE Refilled

\* C11: under the token bucket every entry's tokens stay within 0..burst; a
\* call that admits leaves tokens exactly 1 below the refilled and clamped
\* value, a call that denies leaves them at that value.
C11_TokenBucket == []C11_TokensInRange /\ [][C11_AllowSpendsOne]_vars

\* a token-bucket call was denied with a half token left in the bucket
C11_Witness ==
    /\ limiter.algorithm = "RATE_TOKEN_BUCKET"
    /\ rl_last.op = "allow" /\ rl_last.path = "entry" /\ rl_last.result = 0
    /\ EntryOf(limiter, rl_last.key).tokens > 0
    /\ limiter.allowed > 0

\* the burst scenario as run: twenty calls with no pause between them, one
\* pause of ShortWait milliseconds, five more calls
BurstRun ==
    /\ Len(rl_trace) = 26
    /\ \A i \in 1..20 : rl_trace[i].op = "allow"
    /\ rl_trace[21] = [op |-> "wait", n |-> ShortWait]
    /\ \A i \in 22..26 : rl_trace[i].op = "allow"

\* C12: token bucket with rate 10/s and burst 10: of twenty immediate calls
\* for one key the first ten are admitted and the next ten denied, and after
\* a pause of 500 ms five further calls are admitted.
C12_BurstThenRefill ==
    BurstRun =>
        /\ \A i \in 1..10 : rl_trace[i].n = 1
        /\ \A i \in 11..20 : rl_trace[i].n = 0
        /\ \A i \in 22..26 : rl_trace[i].n = 1

\* a call was admitted although the cap's admissions of the second were used
OverCap == limiter.global_limit > 0 /\ admits > limiter.global_limit

\* C13: with global_limit = G > 0 at most G rate_limiter_allow calls return
\* true within one second, over all keys; after G admissions every further
\* call of that second is denied.
C13_GlobalCap == ~OverCap

\* the step is a rate_limiter_cleanup call
Swept == rl_last'.op = "cleanup" /\ calls' = calls /\ wall' = wall

\* the key has had no rate_limiter_allow call for more than EXPIRY seconds
IdleKey(key) == time(wall) - used[key] > EXPIRY

C14_CleanupStep ==
    Swept =>
        \A key \in {k \in Keys : Has(limiter, k)} :
            /\ Has(limiter', key) <=> ~IdleKey(key)
            /\ Has(limiter', key) =>
                   EntryOf(limiter', key) = EntryOf(limiter, key)

\* C14: rate_limiter_cleanup removes an entry exactly when its key has had
\* no allow call for more than 300 s; an entry used within that time
\* survives with its state, under each of the three algorithms.
C14_ReclaimedOnlyWhenIdle == [][C14_CleanupStep]_vars

\* the step is a rate_limiter_allow call for a key without an entry, made
\* under the global cap, in which calloc gave no memory for the entry
CreationFailed ==
    /\ calls' = calls + 1
    /\ ~Has(limiter, rl_last'.key)
    /\ ~global_denies(global_rolled(limiter, time(wall)))
    /\ ~Has(limiter', rl_last'.key)

C15_FailedCreationAdmits ==
    CreationFailed =>
        /\ rl_last'.result = 1
        /\ limiter'.buckets = limiter.buckets

\* C15: when the entry of an unseen key cannot be created, rate_limiter_allow
\* returns true and the hash table has no entry for the key afterwards.
C15_FailsOpen == [][C15_FailedCreationAdmits]_vars

\* a call for an unseen key was admitted without an entry, next to the entry
\* of another key
C15_Witness ==
    /\ rl_last.op = "allow" /\ rl_last.path = "error" /\ rl_last.result = 1
    /\ ~Has(limiter, rl_last.key)
    /\ Entries(limiter) # {}

(***************************************************************************)
(* Claims about failed leases.                                             *)
(***************************************************************************)
\* the step is an on_server_event callback that accepted a client, took a
\* session from the slab and set up nothing: its lease of a backend fd failed
LeaseFailed ==
    /\ phase = "dispatch"
    /\ Head(batch).callback = "on_server_event"
    /\ LowestFree(open) >= 0
    /\ free_list # NULL
    /\ last'.cause = "lease_failed"
    /\ watch' \subseteq watch

\* b is marked, and nothing else in the roster's health and counts changes
MarkedOnly(b) ==
    /\ backends'[b].failed_requests = backends[b].failed_requests + 1
    /\ ~backends'[b].is_healthy
    /\ \A c \in DOMAIN backends :
           /\ backends'[c].active_connections = backends[c].active_connections
           /\ c # b =>
                 /\ backends'[c].failed_requests = backends[c].failed_requests
                 /\ backends'[c].is_healthy = backends[c].is_healthy

Chosen ==
    {select_backend(lb_algorithm, backends, LbBackends, current_index,
                    ip).pick : ip \in ClientIps}

C16_FailedLeaseStep ==
    LeaseFailed =>
        /\ \E b \in Chosen : MarkedOnly(b)
        /\ free_list' = free_list
        /\ num_connections' = num_connections
        /\ LowestFree(open) \notin open'

\* C16: when a session's lease of a backend fd fails, the chosen backend's
\* failed_requests goes up by exactly 1 and its is_healthy becomes false in
\* that callback, and the session is freed with no active_connections
\* changed.
C16_FailedLeaseMarksBackend == [][C16_FailedLeaseStep]_vars

\* the roster once backend b is marked after a failed lease
Marked(bs, b) ==
    [bs EXCEPT ![b].is_healthy = FALSE, ![b].failed_requests = @ + 1]

\* what select_backend leaves behind when it is called again after sel
Reselected(sel, ip) ==
    select_backend(lb_algorithm, Marked(sel.backends, sel.pick), LbBackends,
                   sel.current_index, ip)

\* the selection state is the one a second select_backend call leaves
Retried ==
    \E ip \in ClientIps :
        LET again == Reselected(select_backend(lb_algorithm, backends,
                                               LbBackends, current_index, ip),
                                ip)
        IN  /\ current_index' = again.current_index
            /\ \A b \in DOMAIN backends :
                   backends'[b].current_weight =
                       again.backends[b].current_weight

C17_FailedLeaseStep == LeaseFailed => Retried

\* C17: when the lease of the selected backend fails, the proxy marks it,
\* selects afresh and tries once more; it answers 502 only when that second
\* attempt fails too.  Checked here: the failed callback made the second
\* selection.
C17_RetriesOnce == [][C17_FailedLeaseStep]_vars

(***************************************************************************)
(* Hot reload.                                                             *)
(***************************************************************************)
C21_CurrentValid == config_validate(g_config) = 1

Rejected == hr_last.asked /\ (~hr_last.read \/ hr_last.valid = 0)

\* the step is a turn of main's loop
Turned == hr_last'.turn # hr_last.turn

C21_ReloadStep ==
    /\ Turned /\ Rejected' =>
          /\ g_config' = g_config
          /\ g_running' = g_running
    /\ g_config' # g_config =>
          /\ Turned
          /\ hr_last'.asked /\ hr_last'.read
          /\ hr_last'.valid = 1 /\ hr_last'.equal = 0
          /\ config_validate(g_config') = 1
          /\ config_equal(g_config, g_config') = 0

\* C21: the configuration in force has always passed config_validate; a
\* reload whose candidate cannot be loaded or fails validation leaves the
\* reference and the process as they were, and the reference changes only
\* to a validated candidate that config_equal tells apart from the current
\* configuration.
C21_ReloadKeepsValid == []C21_CurrentValid /\ [][C21_ReloadStep]_vars

\* after one reload that swapped, a reload finds an invalid file and the
\* process goes on with the configuration it had
C21_Witness ==
    /\ hr_last.asked /\ hr_last.read /\ hr_last.valid = 0
    /\ g_config.file_mtime > 0
    /\ g_running = 1

\* milliseconds since the second that reload_start_drain recorded
SinceDrainStart == hr_wall - state.drain_start * 1000

C22_CompleteExactly ==
    state.is_draining = 1 =>
        (reload_drain_complete(state, time(hr_wall)) = 1
            <=> \/ state.active_connections = 0
                \/ SinceDrainStart >= state.drain_timeout * 1000)

C22_DoneInTime ==
    state.is_draining = 1 /\ hr_wall - drain_began >= state.drain_timeout * 1000
        => reload_drain_complete(state, time(hr_wall)) = 1

C22_DrainingStays == state.is_draining = 1 => state'.is_draining = 1

\* C22: once reload_start_drain(state, T) has run, is_draining stays set,
\* reload_drain_complete returns 1 exactly when active_connections is 0 or
\* T seconds or more have passed since drain_start, and so it returns 1
\* from T seconds after the call at the latest, whatever sessions do.
C22_Drain ==
    /\ [](C22_CompleteExactly /\ C22_DoneInTime)
    /\ [][C22_DrainingStays]_vars

\* a drain with sessions still open that its timeout ends
C22_Witness ==
    /\ state.is_draining = 1
    /\ state.active_connections > 0
    /\ state.drain_timeout > 0
    /\ hr_wall - drain_began = state.drain_timeout * 1000
    /\ reload_drain_complete(state, time(hr_wall)) = 1

\* process pid ran reload_init in this step
Started(pid) == procs[pid].pc = "new" /\ procs'[pid].pc = "inited"

\* process pid ran reload_signal_old in this step
Signals(pid) == procs[pid].pc = "inited" /\ procs'[pid].pc = "signalled"

OldAlive(pid) == procs[pid].old > 0 /\ procs[procs[pid].old].alive

C23_HandoverStep ==
    \A pid \in Pids :
        /\ Started(pid) => pid_file' # <<>> /\ atoi(pid_file') = pid
        /\ Signals(pid) =>
              /\ procs'[pid].sent # pid
              /\ OldAlive(pid) => procs'[pid].sent = procs[pid].old

\* C23: after a process has run reload_init the PID file names that
\* process, and when the PID it found there is of a live process,
\* reload_signal_old signals that process and never the caller.
C23_PidHandover == [][C23_HandoverStep]_vars

(***************************************************************************)
(* The event loop.                                                         *)
(***************************************************************************)
\* C24: on each of the three backends event_loop_run returns the number of
\* callbacks it ran in that iteration, also when a descriptor was ready for
\* several conditions or a ready descriptor had no registration left, and it
\* returns 0 when the wait was interrupted by a signal.
C24_RunReturnsDispatched ==
    ev_last.ran =>
        /\ ev_last.wait = "EINTR" => ev_last.ret = 0
        /\ ev_last.wait = "ok" => ev_last.ret = ev_last.dispatched

\* C25: within a session the bytes the backend socket took are the bytes
\* read from the client, in order, with the injected header lines as the only
\* addition and at most once; the bytes the client socket took are the bytes
\* read from the backend.  This holds also when a write takes fewer bytes
\* than offered or would block.
Unheaded(s) == SelectSeq(s, LAMBDA b : b # XFF)

C25_RelayPreservesStream ==
    /\ Unheaded(relay.to_backend) = relay.from_client
    /\ Len(relay.to_backend) <= Len(relay.from_client) + 1
    /\ relay.to_client = relay.from_backend

\* C26: between callbacks, every descriptor a session holds is registered
\* with the reactor for that session (also when event_loop_add turned the
\* descriptor down), and every registration belongs to a session that holds
\* the descriptor: no descriptor of a freed session stays registered.
Registered(fd, callback, conn) ==
    /\ fd_data[fd] = [callback |-> callback, user_data |-> conn]
    /\ fd \in watch

HeldWatched(conn) ==
    /\ connections[conn].client_fd >= 0 =>
          Registered(connections[conn].client_fd, "on_client_event", conn)
    /\ connections[conn].backend_fd >= 0 =>
          Registered(connections[conn].backend_fd, "on_backend_event", conn)

WatchedHeld(fd) ==
    /\ fd_data[fd].callback = "on_client_event" =>
          connections[fd_data[fd].user_data].client_fd = fd
    /\ fd_data[fd].callback = "on_backend_event" =>
          connections[fd_data[fd].user_data].backend_fd = fd
    /\ fd \in watch => fd_data[fd].callback # "none"

C26_RegisteredIffHeld ==
    phase # "crashed" =>
        /\ \A conn \in DOMAIN connections : HeldWatched(conn)
        /\ \A fd \in Fds : WatchedHeld(fd)

(***************************************************************************)
(* The connection pool: the un-pooled dial, conn_pool_return, the LRU list. *)
(***************************************************************************)
\* C27: a conn_pool_get that finds every slot IN_USE dials outside the pool:
\* the slots, the LRU list and current_size stay as they were and only
\* pool_misses goes up by one; when the fd of such a dial is given back,
\* conn_pool_return finds it in no slot, closes it and leaves the pool alone.
AllInUse == \A c \in Slots : pool.connections[c].state = "IN_USE"

OutsidePool(l) == ~l.pooled /\ find_by_fd(pool, l.fd) = NULL

C27_GetStep ==
    gets' = gets + 1 /\ AllInUse =>
        pool' = [pool EXCEPT !.pool_misses = @ + 1]

C27_ReturnStep ==
    \A l \in BagToSet(leases) :
        leases' = Give(l) /\ OutsidePool(l) =>
            pool' = pool /\ l.fd \notin open'

C27_UnpooledDial == [][C27_GetStep /\ C27_ReturnStep]_vars

\* C28: conn_pool_return(fd, host, port).  When fd is in a slot of that
\* backend, is alive and has served fewer than max_requests_per_conn
\* requests, the slot becomes FREE with last_used set to the time of the
\* call and moves to the LRU head, and fd stays open.  When fd is in a slot
\* otherwise, fd is closed, the slot is vacated and unlinked and
\* current_size drops by one.  When fd is in no slot it is closed and the
\* pool is as before.
Reusable(K, c, fd, host) ==
    /\ K.pool.connections[c].host = host
    /\ conn_is_alive(K, fd)
    /\ K.pool.connections[c].requests_served < K.pool.max_requests_per_conn

Unlinked(p, c) ==
    /\ p.lru_head # c /\ p.lru_tail # c
    /\ \A d \in 1..p.max_size : p.connections[d].next # c /\ p.connections[d].prev # c
    /\ p.connections[c].next = NULL /\ p.connections[c].prev = NULL

Kept(K, R, c, fd, nw) ==
    /\ R.pool.connections[c].state = "FREE"
    /\ R.pool.connections[c].fd = fd
    /\ R.pool.connections[c].last_used = nw
    /\ R.pool.lru_head = c
    /\ R.pool.current_size = K.pool.current_size
    /\ R.open = K.open

Vacated(K, R, c, fd) ==
    /\ fd \notin R.open
    /\ R.pool.connections[c].fd = -1
    /\ R.pool.connections[c].state = "FREE"
    /\ Unlinked(R.pool, c)
    /\ R.pool.current_size = K.pool.current_size - 1

ReturnPost(K, R, fd, host, nw) ==
    IF find_by_fd(K.pool, fd) = NULL
    THEN fd \notin R.open /\ R.pool = K.pool
    ELSE IF Reusable(K, find_by_fd(K.pool, fd), fd, host)
    THEN Kept(K, R, find_by_fd(K.pool, fd), fd, nw)
    ELSE Vacated(K, R, find_by_fd(K.pool, fd), fd)

InSlot(l) == l.fd \in open /\ find_by_fd(pool, l.fd) # NULL

RECURSIVE Walk(_, _, _, _)
Walk(p, c, field, n) ==
    IF c = NULL \/ n = 0 THEN <<>>
    ELSE <<c>> \o Walk(p, p.connections[c][field], field, n - 1)

Forward(p) == Walk(p, p.lru_head, "next", p.max_size + 1)
Backward(p) == Walk(p, p.lru_tail, "prev", p.max_size + 1)

Reverse(s) == [i \in DOMAIN s |-> s[Len(s) + 1 - i]]

Linked(p, c) == \E i \in DOMAIN Forward(p) : Forward(p)[i] = c

LruConsistent(p) ==
    /\ Len(Forward(p)) <= p.max_size
    /\ \A i, j \in DOMAIN Forward(p) : i # j => Forward(p)[i] # Forward(p)[j]
    /\ Backward(p) = Reverse(Forward(p))
    /\ p.lru_head # NULL => p.connections[p.lru_head].prev = NULL
    /\ p.lru_tail # NULL => p.connections[p.lru_tail].next = NULL
    /\ \A c \in 1..p.max_size :
          ~Linked(p, c) => p.connections[c].next = NULL /\ p.connections[c].prev = NULL

C29_LruMatchesSlots ==
    /\ LruConsistent(pool)
    /\ \A c \in Slots :
          /\ pool.connections[c].state = "FREE" /\ pool.connections[c].fd >= 0
                => Linked(pool, c)
          /\ pool.connections[c].fd = -1 => ~Linked(pool, c)

(***************************************************************************)
(* Round robin.                                                            *)
(***************************************************************************)
\* C30: a round-robin selection returns the first healthy backend in cyclic
\* roster order after the previous index and leaves the rolling index on
\* it; when no backend is healthy it returns the backend at index
\* (start + 1) mod n, start being the index before the call; what it
\* returns is always a member of the roster.
HealthyAhead(bs, n, start) == {k \in 1..n : bs[(start + k) % n].is_healthy}

Nearest(S) == CHOOSE k \in S : \A j \in S : k <= j

RrStep ==
    /\ picks'[1] \in Roster
    /\ IF HealthyAhead(backends, NumBackends, current_index) = {}
       THEN picks'[1] = (current_index + 1) % NumBackends
       ELSE /\ picks'[1] = (current_index
                              + Nearest(HealthyAhead(backends, NumBackends,
                                                     current_index)))
                             % NumBackends
            /\ current_index' = picks'[1]

C30_RoundRobin == [][nsel' = nsel + 1 => RrStep]_vars

\* a selection has skipped an unhealthy backend and wrapped around
C30_Witness ==
    /\ nsel > 1
    /\ picks = <<0>>
    /\ current_index = 0
    /\ ~backends[NumBackends - 1].is_healthy
    /\ backends[0].is_healthy

(***************************************************************************)
(* Least connections.                                                      *)
(***************************************************************************)
\* C31: least-connections selection returns, among the healthy backends,
\* the one with the smallest integer score active_connections*100/weight,
\* the earliest in roster order winning ties; it returns no unhealthy
\* backend while a healthy one exists, and when none is healthy it returns
\* what round-robin returns.
LcScore(b) == (b.active_connections * 100) \div b.weight

LcExpected(bs, cur) ==
    IF HealthySet(bs) = {} THEN select_round_robin(bs, NumBackends, cur).pick
    ELSE CHOOSE i \in HealthySet(bs) :
            \A j \in HealthySet(bs) :
               \/ LcScore(bs[i]) < LcScore(bs[j])
               \/ LcScore(bs[i]) = LcScore(bs[j]) /\ i <= j

C31_LeastConnections ==
    /\ select_least_connections(backends, NumBackends, current_index).pick
          = LcExpected(backends, current_index)
    /\ HealthySet(backends) # {}
          => backends[select_least_connections(backends, NumBackends,
                                               current_index).pick].is_healthy

\* a selection has passed over an unhealthy idle backend and taken the
\* first of two healthy backends with one score
C31_Witness ==
    /\ picks = <<1>>
    /\ ~backends[0].is_healthy
    /\ backends[0].active_connections = 0
    /\ backends[1].is_healthy /\ backends[2].is_healthy
    /\ backends[1].active_connections > 0
    /\ LcScore(backends[1]) = LcScore(backends[2])
    /\ select_least_connections(backends, NumBackends, current_index).pick = 1

(***************************************************************************)
(* Health supervision.                                                     *)
(***************************************************************************)
\* C32: two probes of one backend are at least HEALTH_CHECK_INTERVAL
\* seconds apart; a pass of health_check_all leaves no backend whose
\* interval has elapsed unprobed; after a probe is_healthy is what the
\* probe found.
C32_HealthSupervision ==
    /\ \A i \in HcRoster :
          hc.gap[i] # -1 => hc.gap[i] >= HEALTH_CHECK_INTERVAL
    /\ hc.phase = "wait" =>
          \A i \in HcRoster :
             /\ hc.now - hc.backends[i].last_health_check
                   < HEALTH_CHECK_INTERVAL
             /\ i \in hc.round =>
                   hc.backends[i].is_healthy = hc.result[i]

\* the second and third parts of C32 on their own
C32_ProbedWhenDue ==
    hc.phase = "wait" =>
       \A i \in HcRoster :
          /\ hc.now - hc.backends[i].last_health_check < HEALTH_CHECK_INTERVAL
          /\ i \in hc.round => hc.backends[i].is_healthy = hc.result[i]

(***************************************************************************)
(* The sliding window.                                                     *)
(***************************************************************************)
\* key's entry, as find_or_create_entry hands it to the algorithm at time t
HandedEntry(L, key, t) ==
    IF chain_find(L.buckets[hash_key(key)], key, 1) = NULL
    THEN NewEntry(L, key, t)
    ELSE L.buckets[hash_key(key)][chain_find(L.buckets[hash_key(key)], key, 1)]

\* floor(w * window_count), w = 1 - (since - window_size) / window_size
\* clamped to [0, 1]
Carried(L, e, since) ==
    IF since < L.window_size THEN e.window_count
    ELSE IF since >= 2 * L.window_size THEN 0
    ELSE (e.window_count * (2 * L.window_size - since)) \div L.window_size

SwStep(L, e, e2, t, result) ==
    /\ e2.window_start =
          IF t - e.window_start >= L.window_size THEN t ELSE e.window_start
    /\ result = 1
          <=> Carried(L, e, t - e.window_start) * ONE < L.rate * L.window_size
    /\ e2.window_count = Carried(L, e, t - e.window_start) + result
    /\ (e2.window_count - 1) * ONE < L.rate * L.window_size

\* C33: a sliding-window call whose window has passed carries
\* floor(w * window_count) into the new window and restarts it at now; the
\* call is admitted exactly when the count is below rate * window_size;
\* admission adds one to the count and denial leaves it, so the count never
\* exceeds rate * window_size by a full request.
C33_SlidingWindow ==
    [][calls' = calls + 1 =>
          SwStep(limiter, HandedEntry(limiter, Key_ab, time(wall)),
                 HandedEntry(limiter', Key_ab, time(wall)), time(wall),
                 rl_last'.result)]_vars

\* the restart of the window and the bound of C33, with the carried count
\* only bounded from above
SwBound(L, e, e2, t, result) ==
    /\ e2.window_start =
          IF t - e.window_start >= L.window_size THEN t ELSE e.window_start
    /\ (e2.window_count - 1) * ONE < L.rate * L.window_size
    /\ e2.window_count <= Carried(L, e, t - e.window_start) + result

C33_WindowBound ==
    [][calls' = calls + 1 =>
          SwBound(limiter, HandedEntry(limiter, Key_ab, time(wall)),
                  HandedEntry(limiter', Key_ab, time(wall)), time(wall),
                  rl_last'.result)]_vars

(***************************************************************************)
(* Registrations of the chapter-05 event loop.                             *)
(***************************************************************************)
\* C34: after event_loop_add on a descriptor that was registered already,
\* the descriptor has one registration, with the new interest mask and the
\* new callback data: what the kernel holds for a registered descriptor is
\* what its current mask asks for, armed with its current data, whichever
\* the backend and also when the new mask drops an interest of the old.
C34_ReAddInPlace ==
    \A fd \in EvFds :
        ev_loop.fd_data[fd] # <<>> =>
            {e \in ev_loop.armed : e.fd = fd}
               = Arm(ev_loop.backend, fd, ev_loop.fd_data[fd][1])

\* C34 on select and epoll alone
C34_ReAddSelectEpoll == ev_loop.backend # "kqueue" => C34_ReAddInPlace

(***************************************************************************)
(* C35: request budget.  requests_served is the pool's count of the leases *)
(* of a pooled connection: the install of conn_pool_get sets it to 1 and   *)
(* each hit adds 1.                                                        *)
(***************************************************************************)
AtBudget(p, c) ==
    p.connections[c].requests_served >= p.max_requests_per_conn

\* the slot a hit of conn_pool_get leased: it was parked under its budget
\* and its count has grown by one
HitLeased(K, R, c, fd, host) ==
    /\ K.pool.connections[c].state = "FREE"
    /\ K.pool.connections[c].fd = fd
    /\ K.pool.connections[c].host = host
    /\ ~AtBudget(K.pool, c)
    /\ R.pool.connections[c].state = "IN_USE"
    /\ R.pool.connections[c].requests_served
         = K.pool.connections[c].requests_served + 1

GetWithinBudget(K, R, host) ==
    R.hit => \E c \in 1..K.pool.max_size : HitLeased(K, R.K, c, R.fd, host)

\* a return of a connection whose count has reached the budget closes it
ReturnAtBudget(K, R, fd) ==
    (find_by_fd(K.pool, fd) # NULL /\ AtBudget(K.pool, find_by_fd(K.pool, fd)))
        => /\ fd \notin R.open
           /\ R.pool.connections[find_by_fd(K.pool, fd)].fd = -1

\* C35: no slot's requests_served exceeds max_requests_per_conn and a slot
\* that holds a connection has counted its first lease; no parked entry has
\* reached the budget; a hit of conn_pool_get leases an entry that is under
\* the budget and counts the lease; conn_pool_return of an entry at the
\* budget closes the descriptor and empties the slot instead of parking it.
C35_RequestBudget ==
    /\ \A c \in 1..pool.max_size :
          /\ pool.connections[c].requests_served <= pool.max_requests_per_conn
          /\ pool.connections[c].fd >= 0
               => pool.connections[c].requests_served >= 1
          /\ (pool.connections[c].state = "FREE" /\ pool.connections[c].fd >= 0)
               => ~AtBudget(pool, c)
    /\ \A host \in Hosts, ok \in BOOLEAN :
          GetWithinBudget(Kern, conn_pool_get(Kern, host, now, ok), host)
    /\ \A fd \in Fds, host \in Hosts :
          ReturnAtBudget(Kern, conn_pool_return(Kern, fd, host, now), fd)

\* a lease that is the last its connection may have: the connection came
\* from a hit, is alive and is returned to its own host, and is closed
C35_Witness ==
    \E l \in BagToSet(leases) :
        /\ InSlot(l)
        /\ conn_is_alive(Kern, l.fd)
        /\ pool.connections[find_by_fd(pool, l.fd)].host = l.host
        /\ pool.connections[find_by_fd(pool, l.fd)].state = "IN_USE"
        /\ pool.connections[find_by_fd(pool, l.fd)].requests_served
             = pool.max_requests_per_conn
        /\ pool.max_requests_per_conn > 1
        /\ l.fd \notin conn_pool_return(Kern, l.fd, l.host, now).open

(***************************************************************************)
(* C36: pool size accounting.                                              *)
(***************************************************************************)
Holding(p) == {c \in 1..p.max_size : p.connections[c].fd >= 0}

\* C36: current_size is the number of slots that hold a descriptor, every
\* descriptor a slot records is open (the pool has not closed it), and
\* current_size is not negative.
C36_SizeAccounting ==
    /\ pool.current_size = Cardinality(Holding(pool))
    /\ \A c \in Holding(pool) : pool.connections[c].fd \in open
    /\ pool.current_size >= 0

(***************************************************************************)
(* C37: each allocated session is released at most once.                   *)
(***************************************************************************)
\* the sessions met on the first n steps along the free list from i
RECURSIVE FreeWalk(_, _)
FreeWalk(i, n) ==
    IF i = NULL \/ n = 0 THEN <<>>
    ELSE <<i>> \o FreeWalk(connections[i].next, n - 1)

FreeSeq == FreeWalk(free_list, MaxClients + 1)

OnFreeList == {FreeSeq[k] : k \in DOMAIN FreeSeq}

\* C37: the free list holds no session twice and ends within MAX_CLIENTS
\* steps, num_connections is the number of sessions that are not on it, and
\* 0 <= num_connections <= MAX_CLIENTS.
C37_ReleasedOnce ==
    /\ \A j, k \in DOMAIN FreeSeq : j # k => FreeSeq[j] # FreeSeq[k]
    /\ Len(FreeSeq) <= MaxClients
    /\ num_connections = Cardinality(Conns \ OnFreeList)
    /\ num_connections >= 0
    /\ num_connections <= MaxClients

(***************************************************************************)
(* C38: dispatch after a removal within one iteration.                     *)
(***************************************************************************)
\* the last event_loop_run met an entry of its batch whose registration was
\* gone and went through the entry's pointer: epoll and kqueue read
\* data->callback from the event_data_t that event_loop_del freed (and call
\* it when the block still holds it); select looks the descriptor up in
\* fd_data and skips it
UsedFreedData ==
    /\ ev_last.ran
    /\ ev_last.gone
    /\ ev_loop.backend \in {"epoll", "kqueue"}

\* C38: no event_loop_run dispatches an entry through callback data that a
\* callback of the same iteration has removed and freed.
C38_DispatchCurrent == ~UsedFreedData

(***************************************************************************)
(* C39: a modification of the file causes a bounded number of reloads.     *)
(***************************************************************************)
\* a turn of main's loop that attempts a reload
ReloadAttempt == g_reload = 1 /\ hr_last'.turn # hr_last.turn

\* once a turn has attempted a reload, config_changed(g_config) is false
C39_ProcessedStep ==
    ReloadAttempt => ~config_changed(g_config', conf_mtime')

C39_Processed == [][C39_ProcessedStep]_vars

\* when SIGHUP stops arriving (the file is saved MaxEdits times at most),
\* the loop stops attempting reloads
C39_Settles == <>[][~handle_sighup]_vars => <>[][~ReloadAttempt]_vars

\* C39: after a turn of the reload loop has processed a change of the
\* file's mtime (swapped, rejected or equal), config_changed on the current
\* configuration is false until the file is saved again, and the loop
\* eventually stops reloading.
C39_ReloadsSettle == C39_Processed /\ C39_Settles

(***************************************************************************)
(* C40: one entry per key.                                                 *)
(***************************************************************************)
\* the entries of key's chain that were created for key: a new entry
\* stores what strncpy keeps of the key
CreatedFor(L, key) ==
    {i \in DOMAIN L.buckets[hash_key(key)] :
        L.buckets[hash_key(key)][i].key = strncpy(key, KEY_SIZE - 1)}

\* C40: the limiter holds at most one entry for every key, whatever its
\* length, and a rate_limiter_allow call for a key that has an entry finds
\* it: the call creates none.
C40_Step ==
    \A key \in {Key_ab, Key_long} :
        (calls' = calls + 1 /\ rl_last'.key = key /\ CreatedFor(limiter, key) # {})
            => Cardinality(CreatedFor(limiter', key))
                  = Cardinality(CreatedFor(limiter, key))

C40_OneEntryPerKey ==
    /\ [](\A key \in {Key_ab, Key_long} :
              Cardinality(CreatedFor(limiter, key)) <= 1)
    /\ [][C40_Step]_vars

\* for keys that fit RateEntry.key the claim holds
C40_ShortKeys ==
    \A key \in Keys : Cardinality(CreatedFor(limiter, key)) <= 1

=============================================================================
